---------------------------- MODULE Spec2Model ----------------------------
(***************************************************************************)
(* Model of the Avantis trading service (avantis-service/*.py): the retry  *)
(* decorator, the open_position / close_all_positions orchestration, the   *)
(* position listings, and the chain node they talk to.                     *)
(***************************************************************************)
EXTENDS Integers, Sequences, FiniteSets, TLC

(***************************************************************************)
(* Strings are sequences of one-character strings, so that str.lower(),    *)
(* str.upper() and the substring test `kw in s` are computed, not assumed. *)
(***************************************************************************)
UpperChars == <<"A","B","C","D","E","F","G","H","I","J","K","L","M",
                "N","O","P","Q","R","S","T","U","V","W","X","Y","Z">>

LowerChars == <<"a","b","c","d","e","f","g","h","i","j","k","l","m",
                "n","o","p","q","r","s","t","u","v","w","x","y","z">>

LowerChar(c) ==
    IF \E i \in 1..26 : UpperChars[i] = c
    THEN LowerChars[CHOOSE i \in 1..26 : UpperChars[i] = c]
    ELSE c

UpperChar(c) ==
    IF \E i \in 1..26 : LowerChars[i] = c
    THEN UpperChars[CHOOSE i \in 1..26 : LowerChars[i] = c]
    ELSE c

\* str.lower()
Lower(s) == [i \in 1..Len(s) |-> LowerChar(s[i])]

\* str.upper()
Upper(s) == [i \in 1..Len(s) |-> UpperChar(s[i])]

\* `kw in s` for strings: kw occurs as a contiguous substring of s
Contains(s, kw) ==
    \E i \in 0..(Len(s) - Len(kw)) :
        \A j \in 1..Len(kw) : s[i + j] = kw[j]

\* decimal rendering of a natural number, as str(int) prints it
Digits == <<"0","1","2","3","4","5","6","7","8","9">>

RECURSIVE NatToStr(_)
NatToStr(n) ==
    IF n < 10 THEN <<Digits[n + 1]>>
    ELSE NatToStr(n \div 10) \o <<Digits[(n % 10) + 1]>>

\* a float holding a whole number prints as "<n>.0"
FloatToStr(n) == NatToStr(n) \o <<".", "0">>

\* bytes.hex(): two lower-case hexadecimal digits for each byte
HexDigits == <<"0","1","2","3","4","5","6","7","8","9","a","b","c","d","e","f">>

RECURSIVE BytesHex(_)
BytesHex(b) ==
    IF b = <<>> THEN <<>>
    ELSE <<HexDigits[(Head(b) \div 16) + 1], HexDigits[(Head(b) % 16) + 1]>>
         \o BytesHex(Tail(b))

\* HexBytes.hex() starts with "0x" or not, by the version of the hexbytes
\* package installed
HexPrefixes == { <<>>, <<"0", "x">> }

\* the transaction hash of the transaction with nonce n (a HexBytes)
TxHash(n) == [t |-> "HexBytes", b |-> <<171, n>>, s |-> <<>>]

(***************************************************************************)
(* utils.py: is_network_error                                              *)
(***************************************************************************)
network_error_types == {"ConnectionError", "TimeoutError", "OSError"}

network_keywords ==
    { <<"c","o","n","n","e","c","t","i","o","n">>,
      <<"t","i","m","e","o","u","t">>,
      <<"n","e","t","w","o","r","k">>,
      <<"d","n","s">>,
      <<"r","e","f","u","s","e","d">>,
      <<"u","n","r","e","a","c","h","a","b","l","e">>,
      <<"s","o","c","k","e","t">> }

is_network_error_keyword(msg) ==
    \E kw \in network_keywords : Contains(Lower(msg), kw)

(***************************************************************************)
(* The exceptions the service raises.  An error is [id, arg]; its Python   *)
(* type and its str() are computed from the raise statement in the source. *)
(***************************************************************************)
STR_symbol ==
    <<"S","y","m","b","o","l"," ">>

STR_not_found ==
    <<" ","n","o","t"," ","f","o","u","n","d"," ","i","n"," ","r","e",
      "g","i","s","t","r","y">>

STR_collateral ==
    <<"C","o","l","l","a","t","e","r","a","l"," ","$">>

STR_below_min ==
    <<" ","i","s"," ","b","e","l","o","w"," ","p","r","o","t","o","c",
      "o","l"," ","m","i","n","i","m","u","m"," ","$">>

STR_leverage ==
    <<"L","e","v","e","r","a","g","e"," ">>

STR_out_of_range ==
    <<"x"," ","i","s"," ","o","u","t"," ","o","f"," ","r","a","n","g",
      "e"," ","(","2","x","-","5","0","x",")",".">>

STR_invalid_pair ==
    <<"I","n","v","a","l","i","d"," ","p","a","i","r"," ","i","n","d",
      "e","x",":"," ">>

STR_reverted ==
    <<"T","r","a","n","s","a","c","t","i","o","n"," ","f","a","i","l",
      "e","d","/","r","e","v","e","r","t","e","d"," ","o","n"," ","c",
      "h","a","i","n","."," ","H","a","s","h",":"," ">>

STR_unknown == <<"u","n","k","n","o","w","n">>

\* the text of the known rejection signature, and the literal of its hex
\* encoding in _format_receipt
STR_BELOW_MIN_POS ==
    <<"B","E","L","O","W","_","M","I","N","_","P","O","S">>

STR_below_min_pos_hex ==
    <<"4","2","4","5","4","c","4","f","5","7","5","f","4","d","4","9",
      "4","e","5","f","5","0","4","f","5","3">>

\* (the multiplication sign of the message is written x)
STR_bmp_collateral ==
    <<"T","r","a","n","s","a","c","t","i","o","n"," ","r","e","v","e",
      "r","t","e","d",":"," ","B","E","L","O","W","_","M","I","N","_",
      "P","O","S"," ","-"," ","P","o","s","i","t","i","o","n"," ","s",
      "i","z","e"," ","b","e","l","o","w"," ","c","o","n","t","r","a",
      "c","t"," ","m","i","n","i","m","u","m","."," ","Y","o","u","r",
      " ","c","o","l","l","a","t","e","r","a","l"," ","(","$">>

STR_bmp_too_small ==
    <<")"," ","x"," ","l","e","v","e","r","a","g","e"," ","i","s"," ",
      "t","o","o"," ","s","m","a","l","l"," ","f","o","r"," ","t","h",
      "i","s"," ","p","a","i","r","."," ","T","r","y"," ","i","n","c",
      "r","e","a","s","i","n","g"," ","y","o","u","r"," ","b","u","d",
      "g","e","t"," ","p","e","r"," ","p","o","s","i","t","i","o","n",
      " ","t","o"," ","a","t"," ","l","e","a","s","t"," ","$","5","0",
      "-","1","0","0","."," ","H","a","s","h",":"," ">>

STR_rpc_connect ==
    <<"F","a","i","l","e","d"," ","t","o"," ","c","o","n","n","e","c",
      "t"," ","t","o"," ","R","P","C",":"," ">>

STR_not_reachable ==
    <<"W","e","b","3"," ","p","r","o","v","i","d","e","r"," ","n","o",
      "t"," ","r","e","a","c","h","a","b","l","e",":"," ">>

STR_approval_failed ==
    <<"U","S","D","C"," ","a","p","p","r","o","v","a","l"," ","f","a",
      "i","l","e","d",":"," ">>

STR_rpc_url ==
    <<"h","t","t","p","s",":","/","/","m","a","i","n","n","e","t",".",
      "b","a","s","e",".","o","r","g">>

STR_conn_refused ==
    <<"C","o","n","n","e","c","t","i","o","n"," ","r","e","f","u","s",
      "e","d">>

STR_exec_reverted ==
    <<"e","x","e","c","u","t","i","o","n"," ","r","e","v","e","r","t",
      "e","d">>

STR_no_is_testnet ==
    <<"'","S","e","t","t","i","n","g","s","'"," ","o","b","j","e","c",
      "t"," ","h","a","s"," ","n","o"," ","a","t","t","r","i","b","u",
      "t","e"," ","'","i","s","_","t","e","s","t","n","e","t","'">>

STR_no_open_trade ==
    <<"N","o"," ","o","p","e","n"," ","t","r","a","d","e"," ","f","o","u","n","d"," ",
      "f","o","r"," ">>

STR_wallet == <<"0","x","W","a","l","l","e","t">>

STR_pair == <<" ","p","a","i","r","=">>

STR_index == <<" ","i","n","d","e","x","=">>

STR_no_levels ==
    <<"A","t"," ","l","e","a","s","t"," ","o","n","e"," ","o","f"," ","n","e","w","_",
      "t","p"," ","o","r"," ","n","e","w","_","s","l"," ","m","u","s","t"," ","b","e"," ",
      "p","r","o","v","i","d","e","d",".">>

NoError == [id |-> "none", arg |-> <<>>]

Err(id, arg) == [id |-> id, arg |-> arg]

\* the exception class of each raise statement
ErrType(e) ==
    CASE e.id = "symbol_not_found"      -> "SymbolNotFoundError"
      [] e.id = "below_min_collateral"  -> "ValueError"
      [] e.id = "leverage_out_of_range" -> "ValueError"
      [] e.id = "invalid_pair"          -> "ValueError"
      [] e.id = "reverted"              -> "ValueError"
      [] e.id = "below_min_pos"         -> "ValueError"
      [] e.id = "approval_failed"       -> "ValueError"
      [] e.id = "approval_failed_io"    -> "ValueError"
      [] e.id = "rpc_connect_failed"    -> "ConnectionError"
      [] e.id = "provider_not_reachable" -> "RuntimeError"
      [] e.id = "rpc_io_error"          -> "OSError"
      [] e.id = "contract_logic_error"  -> "ContractLogicError"
      [] e.id = "settings_attribute"    -> "AttributeError"
      [] e.id = "no_open_trade"         -> "ValueError"
      [] e.id = "no_levels"             -> "ValueError"
      [] OTHER                          -> "Exception"

\* str(error)
ErrMsg(e) ==
    CASE e.id = "symbol_not_found"      -> STR_symbol \o e.arg \o STR_not_found
      [] e.id = "below_min_collateral"  ->
            STR_collateral \o FloatToStr(e.arg) \o STR_below_min \o FloatToStr(10) \o <<".">>
      [] e.id = "leverage_out_of_range" -> STR_leverage \o NatToStr(e.arg) \o STR_out_of_range
      [] e.id = "invalid_pair"          -> STR_invalid_pair \o NatToStr(e.arg)
      [] e.id = "reverted"              -> STR_reverted \o e.arg
      [] e.id = "below_min_pos"         ->
            STR_bmp_collateral \o e.arg.collateral \o STR_bmp_too_small \o e.arg.hash
      [] e.id = "approval_failed"       ->
            STR_approval_failed \o STR_not_reachable \o STR_rpc_url
      [] e.id = "approval_failed_io"    -> STR_approval_failed \o STR_conn_refused
      [] e.id = "rpc_connect_failed"    -> STR_rpc_connect \o STR_rpc_url
      [] e.id = "provider_not_reachable" -> STR_not_reachable \o STR_rpc_url
      [] e.id = "rpc_io_error"          -> STR_conn_refused
      [] e.id = "contract_logic_error"  -> STR_exec_reverted
      [] e.id = "settings_attribute"    -> STR_no_is_testnet
      [] e.id = "no_open_trade"         ->
            STR_no_open_trade \o STR_wallet \o STR_pair \o NatToStr(e.arg[1])
            \o STR_index \o NatToStr(e.arg[2])
      [] e.id = "no_levels"             -> STR_no_levels
      [] OTHER                          -> <<>>

\* the category of section 7 of the specification each error belongs to
ErrKind(e) ==
    CASE e.id \in {"symbol_not_found", "below_min_collateral",
                   "leverage_out_of_range", "invalid_pair",
                   "no_open_trade", "no_levels"}            -> "validation"
      [] e.id \in {"reverted", "below_min_pos", "contract_logic_error"} -> "onchain"
      [] e.id \in {"approval_failed", "approval_failed_io"} -> "approval"
      [] e.id \in {"rpc_connect_failed", "provider_not_reachable",
                   "rpc_io_error"}                          -> "network"
      [] e.id = "settings_attribute"                        -> "internal"
      [] OTHER                                              -> "none"

is_network_error(e) ==
    \/ ErrType(e) \in network_error_types
    \/ is_network_error_keyword(ErrMsg(e))

(***************************************************************************)
(* utils.py: retry_on_network_error (async_wrapper)                        *)
(***************************************************************************)
max_retries == 3

retry_delay == 1

default_backoff == 2

\* the errors raised in the runs modelled, and those of them the decorator
\* takes for network errors (worked out once; any other error is classified
\* when it is met)
RaisedErrors ==
    { Err("symbol_not_found", <<"D","N","S">>), Err("symbol_not_found", <<"X","Y","Z">>),
      Err("below_min_collateral", 5), Err("leverage_out_of_range", 51),
      Err("contract_logic_error", <<>>),
      Err("approval_failed", <<>>), Err("approval_failed_io", <<>>),
      Err("rpc_connect_failed", <<>>), Err("provider_not_reachable", <<>>),
      Err("rpc_io_error", <<>>), Err("settings_attribute", <<>>) }
    \cup { Err("reverted", hx \o BytesHex(TxHash(n).b)) : n \in 0..4, hx \in HexPrefixes }

NetworkErrors == {e \in RaisedErrors : is_network_error(e)}

IsNetworkError(e) ==
    IF e \in RaisedErrors THEN e \in NetworkErrors ELSE is_network_error(e)

\* what the except-branch of the wrapper does with error e on attempt a
\* (variant: `attempt <= max_retries_val`)
WrapperDecision_le(e, a, maxr) ==
    IF ~IsNetworkError(e) THEN "raise"
    ELSE IF a <= maxr THEN "sleep"
    ELSE "raise"
WrapperDecision(e, a, maxr) ==
    IF ~IsNetworkError(e) THEN "raise"
    ELSE IF a < maxr THEN "sleep"
    ELSE "raise"

\* current_delay *= backoff
NextDelay(d, backoff) == d * backoff

RECURSIVE Pow(_, _)
Pow(b, k) == IF k = 0 THEN 1 ELSE b * Pow(b, k - 1)


(***************************************************************************)
(* State                                                                   *)
(***************************************************************************)
VARIABLES
    \* --- one decorated call in isolation (retry_on_network_error) ---
    w_args,           \* the decorator arguments [max, delay, backoff]
    w_pc,             \* "call" | "sleep" | "returned" | "raised"
    w_attempt,        \* the loop variable `attempt`
    w_current_delay,  \* current_delay
    w_last_error,     \* last_error
    w_result,         \* what the wrapper returned, or the error it raised
    w_calls,          \* history: number of invocations of func
    w_func_out,       \* history: what the latest invocation of func produced
    w_sleeps,         \* history: the delays slept so far
    \* --- the chain node ---
    allowance,        \* USDC allowance(wallet, trading contract), in USDC
    slots,            \* TradingStorage.openTrades of the wallet: [pair, slot] -> trade
    txs,              \* every raw transaction the service sent, in order
    balance,          \* USDC balanceOf(wallet), in USDC
    \* --- the service ---
    running,          \* the request whose coroutine holds the event loop, or 0
    req,              \* per request: its arguments, program counter and locals
    faults,           \* history: number of node or feed calls that failed so far
    \* --- one function called on its own ---
    call,             \* [fn, args, out]: the function, its arguments, its outcome
    \* --- the symbol registry (module-level dicts of symbol_registry.py) ---
    registry          \* [SYMBOL_TO_PAIR_INDEX, PAIR_INDEX_TO_SYMBOL]: sets of <<symbol, index>>

w_vars == <<w_args, w_pc, w_attempt, w_current_delay, w_last_error, w_result,
            w_calls, w_func_out, w_sleeps>>

chain_vars == <<allowance, slots, txs, balance>>

engine_vars == <<running, req, faults>>

vars == <<w_vars, chain_vars, engine_vars, call, registry>>


(***************************************************************************)
(* Bounds and input sets                                                   *)
(***************************************************************************)
NumReq == 2

MaxPairs == 2

MaxSlots == 2

MaxTxs == 3

MaxFaults == 1

Procs == 1..NumReq

Pairs == 0..(MaxPairs - 1)

SlotIdx == 0..(MaxSlots - 1)

SYM_BTC == <<"B","T","C">>

SYM_eth == <<"e","t","h">>

SYM_DNS == <<"D","N","S">>

\* the decorator arguments tried: the defaults of every use in the service
\* (settings.max_retries, settings.retry_delay, backoff 2.0) and some others
RetryArgs ==
    [max : {0, 1, max_retries}, delay : {retry_delay, 3}, backoff : {default_backoff, 3}]

\* what a decorated function can raise
FuncErrors ==
    {e \in RaisedErrors : e.id = "reverted" => e.arg = <<"0", "x">> \o BytesHex(TxHash(0).b)}

\* what a decorated function can return
FuncValues == {[id |-> "value", arg |-> <<"a">>], [id |-> "value", arg |-> <<"b">>]}

(***************************************************************************)
(* Requests                                                                *)
(***************************************************************************)
IdleReq ==
    [ op |-> "none", pc |-> "idle",
      symbol |-> <<>>, collateral |-> 0, leverage |-> 0,
      pair_index |-> 0, trade_index |-> 0, new_tp |-> [n |-> -1, p |-> 0],
      new_sl |-> [n |-> -1, p |-> 0], update_type |-> 0, after |-> {},
      attempt |-> 0, inner |-> 0, last_error |-> NoError, result |-> "none",
      pair |-> 0, idx |-> 0, count |-> 0,
      allow_read |-> 0, tx |-> 0, did_rpc |-> FALSE,
      results |-> <<>>, zero_seen |-> FALSE, occ0 |-> {} ]

\* the all-zero Trade struct openTrades returns for a slot holding no trade
ZeroTrade ==
    [trader |-> "0x0", pair_index |-> 0, index |-> 0, size |-> 0, leverage |-> 0,
     buy |-> FALSE, tp |-> <<>>, sl |-> <<>>]

\* the empty dict {}
EmptyDict == [empty |-> TRUE]

\* no function is being called on its own
NoCall == [fn |-> "none", args |-> <<>>, done |-> FALSE, out |-> NoError]

\* the USDC the wallet holds when the service starts
InitBalance == 60

\* symbols/symbol_registry.py: the entries of the static map whose pair index
\* the model scans, and its inverse; the two dicts as the module is loaded
SYMBOL_TO_PAIR_INDEX ==
    { e \in { <<SYM_BTC, 0>>, <<Upper(SYM_eth), 1>>, <<<<"S","O","L">>, 2>>,
              <<<<"A","V","A","X">>, 3>> } : e[2] \in Pairs }

PAIR_INDEX_TO_SYMBOL == SYMBOL_TO_PAIR_INDEX

InitRegistry ==
    [SYMBOL_TO_PAIR_INDEX |-> SYMBOL_TO_PAIR_INDEX, PAIR_INDEX_TO_SYMBOL |-> PAIR_INDEX_TO_SYMBOL]

EngineIdle ==
    /\ registry = InitRegistry
    /\ balance = InitBalance
    /\ allowance = 0
    /\ slots = [p \in Pairs |-> [i \in SlotIdx |-> ZeroTrade]]
    /\ txs = <<>>
    /\ running = 0
    /\ req = [r \in Procs |-> IdleReq]
    /\ faults = 0

(***************************************************************************)
(* One decorated call in isolation: async_wrapper around a function that   *)
(* returns a value or raises one of the service's errors.                  *)
(***************************************************************************)
InitRetry ==
    /\ w_args \in RetryArgs
    /\ w_pc = "call"
    /\ w_attempt = 0
    /\ w_current_delay = w_args.delay
    /\ w_last_error = NoError
    /\ w_result = NoError
    /\ w_calls = 0
    /\ w_func_out = NoError
    /\ w_sleeps = <<>>
    /\ EngineIdle
    /\ call = NoCall

\* result = func(...); return result
WrapperReturn ==
    /\ w_pc = "call"
    /\ \E v \in FuncValues :
        /\ w_func_out' = v
        /\ w_result' = v
    /\ w_calls' = w_calls + 1
    /\ w_pc' = "returned"
    /\ UNCHANGED <<w_args, w_attempt, w_current_delay, w_last_error, w_sleeps>>
    /\ UNCHANGED <<registry, call, chain_vars, engine_vars>>

\* func raised e: the except branch
WrapperExcept ==
    /\ w_pc = "call"
    /\ \E e \in FuncErrors :
        /\ w_func_out' = e
        /\ w_last_error' = e
        /\ IF WrapperDecision(e, w_attempt, w_args.max) = "sleep"
           THEN /\ w_pc' = "sleep"
                /\ w_result' = w_result
           ELSE /\ w_pc' = "raised"
                /\ w_result' = e
    /\ w_calls' = w_calls + 1
    /\ UNCHANGED <<w_args, w_attempt, w_current_delay, w_sleeps>>
    /\ UNCHANGED <<registry, call, chain_vars, engine_vars>>

\* await asyncio.sleep(current_delay); current_delay *= backoff; next attempt
WrapperSleep ==
    /\ w_pc = "sleep"
    /\ w_sleeps' = Append(w_sleeps, w_current_delay)
    /\ w_current_delay' = NextDelay(w_current_delay, w_args.backoff)
    /\ w_attempt' = w_attempt + 1
    /\ w_pc' = "call"
    /\ UNCHANGED <<w_args, w_last_error, w_result, w_calls, w_func_out>>
    /\ UNCHANGED <<registry, call, chain_vars, engine_vars>>

NextRetry == WrapperReturn \/ WrapperExcept \/ WrapperSleep

SpecRetry == InitRetry /\ [][NextRetry]_vars

\* the event loop runs a ready coroutine and func returns or raises
SpecRetryFair == SpecRetry /\ WF_vars(NextRetry)


(***************************************************************************)
(* symbols/symbol_registry.py                                              *)
(***************************************************************************)
\* str.strip(): the inputs modelled carry no surrounding blanks
_normalize_symbol(symbol) == Upper(symbol)

None == -1

\* SYMBOL_TO_PAIR_INDEX.get(normalized_symbol)
get_pair_index(symbol) ==
    IF \E e \in registry.SYMBOL_TO_PAIR_INDEX : e[1] = _normalize_symbol(symbol)
    THEN (CHOOSE e \in registry.SYMBOL_TO_PAIR_INDEX : e[1] = _normalize_symbol(symbol))[2]
    ELSE None

(***************************************************************************)
(* The chain node and the contracts, as the service observes them          *)
(***************************************************************************)
Wallet == "0xWallet"

ZeroAddress == "0x0"

\* TradingStorage.pairMinLevPosUSDC(pairIndex), in USDC
pairMinLevPosUSDC(p) == IF p = 0 THEN 1000 ELSE 100

\* TradingStorage.openTradesCount(trader, pairIndex)
openTradesCount(p) == Cardinality({i \in SlotIdx : slots[p][i].trader # ZeroAddress})

\* eth_getTransactionCount(sender, block)
get_transaction_count(block) ==
    IF block = "pending"
    THEN Cardinality({k \in 1..Len(txs) : txs[k].status # "dropped"})
    ELSE Cardinality({k \in 1..Len(txs) : txs[k].status \in {"ok", "reverted"}})

\* eth_sendRawTransaction: the node takes a transaction whose nonce is the
\* next one of the sender and refuses any other
NodeStatus(nonce) ==
    IF nonce = get_transaction_count("pending") THEN "pending" ELSE "dropped"

\* config.py: the addresses of the collateral token and of the trading contract
usdc_token_address == "0xUSDC"

avantis_trading_contract_address == "0xTrading"

\* position_queries.py: approve_usdc: the one call built on the token
\* contract, usdc_contract.functions.approve(spender_address, amount_wei)
\* (variant: the wallet itself as spender)
TokenCall_owner == [fn |-> "approve", spender |-> Wallet]
TokenCall == [fn |-> "approve", spender |-> avantis_trading_contract_address]

\* direct_contracts.py: the functions of the trading contract the service calls
TradingCalls ==
    { "openTrade", "closeTradeMarket", "updateTpAndSl", "updateMargin",
      "cancelOpenLimitOrder" }

\* a raw transaction: kind is the contract function called, to the contract
\* it is sent to, spender the first argument of a token call; tp, sl and
\* update_type are arguments of updateTpAndSl and updateMargin (open_position
\* is called without tp and sl); slot (history) is the slot the contract
\* stored the trade of an openTrade in
Tx(kind, r, nonce, p, i, amount, lev, price) ==
    [ kind |-> kind, req |-> r, attempt |-> req[r].attempt, nonce |-> nonce,
      pair |-> p, idx |-> i, amount |-> amount, leverage |-> lev,
      open_price |-> price, status |-> NodeStatus(nonce),
      tp |-> <<>>, sl |-> <<>>, update_type |-> 0, slot |-> None,
      to |-> IF kind \in TradingCalls
             THEN avantis_trading_contract_address ELSE usdc_token_address,
      spender |-> IF kind \in TradingCalls
                  THEN "none" ELSE TokenCall.spender ]

Pending == {k \in 1..Len(txs) : txs[k].status = "pending"}

FreeSlots(p) == {i \in SlotIdx : slots[p][i].trader = ZeroAddress}

Min(S) == CHOOSE x \in S : \A y \in S : x <= y

\* whether the contract can execute transaction t in the current state
Executable(t) ==
    CASE t.kind = "approve"   -> TRUE
      [] t.kind = "openTrade" ->
            /\ allowance >= t.amount
            /\ balance >= t.amount
            /\ t.amount * t.leverage >= pairMinLevPosUSDC(t.pair)
            /\ FreeSlots(t.pair) # {}
      [] t.kind = "closeTradeMarket" -> slots[t.pair][t.idx].trader # ZeroAddress
      [] t.kind = "updateTpAndSl" -> slots[t.pair][t.idx].trader # ZeroAddress
      [] t.kind = "updateMargin" ->
            /\ slots[t.pair][t.idx].trader # ZeroAddress
            /\ t.update_type = 0 => (balance >= t.amount /\ allowance >= t.amount)
            /\ t.update_type = 1 => slots[t.pair][t.idx].size > t.amount
      \* cancelOpenLimitOrder: every order the service opens is a market order
      [] OTHER -> FALSE

\* a block is mined: the pending transaction with the lowest nonce executes
\* (status 1) or reverts (status 0); a transaction the contract can execute
\* reverts (out of gas, slippage) only MaxFaults times
Mine ==
    /\ Pending # {}
    /\ LET k == Min(Pending)
           t == txs[k]
       IN \E st \in {"ok", "reverted"} :
            /\ st = "ok" => Executable(t)
            /\ (st = "reverted" /\ Executable(t)) => faults < MaxFaults
            /\ faults' = IF st = "reverted" /\ Executable(t) THEN faults + 1 ELSE faults
            /\ txs' = [txs EXCEPT ![k].status = st,
                                  ![k].slot = IF st = "ok" /\ t.kind = "openTrade"
                                              THEN Min(FreeSlots(t.pair)) ELSE @]
            /\ allowance' =
                 IF st = "ok" /\ t.kind = "approve"
                    /\ t.spender = avantis_trading_contract_address THEN t.amount
                 ELSE IF st = "ok" /\ t.kind = "openTrade" THEN allowance - t.amount
                 ELSE IF st = "ok" /\ t.kind = "updateMargin" /\ t.update_type = 0
                 THEN allowance - t.amount
                 ELSE allowance
            /\ slots' =
                 IF st = "ok" /\ t.kind = "openTrade"
                 THEN [slots EXCEPT ![t.pair][Min(FreeSlots(t.pair))] =
                          [trader |-> Wallet, pair_index |-> t.pair,
                           index |-> Min(FreeSlots(t.pair)),
                           size |-> t.amount, leverage |-> t.leverage,
                           buy |-> TRUE, tp |-> t.tp, sl |-> t.sl]]
                 ELSE IF st = "ok" /\ t.kind = "closeTradeMarket"
                 THEN [slots EXCEPT ![t.pair][t.idx] = ZeroTrade]
                 ELSE IF st = "ok" /\ t.kind = "updateTpAndSl"
                 THEN [slots EXCEPT ![t.pair][t.idx].tp = t.tp, ![t.pair][t.idx].sl = t.sl]
                 ELSE IF st = "ok" /\ t.kind = "updateMargin"
                 THEN [slots EXCEPT ![t.pair][t.idx].size =
                          IF t.update_type = 0 THEN @ + t.amount ELSE @ - t.amount]
                 ELSE slots
            /\ balance' =
                 IF st = "ok" /\ t.kind = "openTrade" THEN balance - t.amount
                 ELSE IF st = "ok" /\ t.kind = "closeTradeMarket"
                 THEN balance + slots[t.pair][t.idx].size
                 ELSE IF st = "ok" /\ t.kind = "updateMargin"
                 THEN IF t.update_type = 0 THEN balance - t.amount ELSE balance + t.amount
                 ELSE balance
    /\ UNCHANGED <<registry, call, w_vars, running, req>>


(***************************************************************************)
(* The service.  Every node call is a blocking web3 call made on the event *)
(* loop; a coroutine gives the loop up only at an await that suspends      *)
(* (asyncio.sleep, asyncio.to_thread, the price feed).  `running` is the   *)
(* request that holds the loop.                                            *)
(***************************************************************************)
CanRun(r) == running \in {0, r}

\* a call to the node or to the price feed fails only MaxFaults times
Fault(failed) ==
    /\ failed => faults < MaxFaults
    /\ faults' = IF failed THEN faults + 1 ELSE faults

\* a request arrives and its handler starts the decorated operation
Start(r, op, symbol, collateral, leverage) ==
    /\ req[r].pc = "idle"
    /\ \A q \in Procs : q < r => req[q].pc # "idle"
    /\ running = 0
    /\ req' = [req EXCEPT ![r] =
                 [@ EXCEPT !.op = op, !.pc = op, !.symbol = symbol,
                           !.collateral = collateral, !.leverage = leverage]]
    /\ running' = r
    /\ UNCHANGED <<registry, call, w_vars, chain_vars, faults>>

\* the open_position requests made: one the contract takes, one below the
\* minimum position of its pair, one below the minimum collateral, one above
\* the leverage range, one for an unknown symbol
OpenInputs ==
    { <<SYM_eth, 50, 10>>, <<SYM_BTC, 50, 10>>, <<SYM_BTC, 5, 10>>, <<SYM_BTC, 50, 51>>,
      <<SYM_DNS, 50, 10>> }

StartOpen(r) ==
    \E i \in OpenInputs : Start(r, "open_position", i[1], i[2], i[3])

StartCloseAll(r) == Start(r, "close_all_positions", <<>>, 0, 0)

\* the operation of request rq is left (return or raise): its locals are gone
Leave(rq, pc, result) ==
    [rq EXCEPT !.pc = pc, !.result = result, !.pair = 0, !.idx = 0, !.count = 0,
               !.inner = 0, !.allow_read = 0, !.tx = 0]

\* the except branch of async_wrapper, for the operation of request rq
Raised(rq, e) ==
    IF WrapperDecision(e, rq.attempt, max_retries) = "sleep"
    THEN Leave([rq EXCEPT !.last_error = e], "retry_sleep", rq.result)
    ELSE Leave([rq EXCEPT !.last_error = e], "done", "error")

\* asyncio.sleep is over: the next attempt calls the operation again
RetryWake(r) ==
    /\ req[r].pc = "retry_sleep"
    /\ running = 0
    /\ req' = [req EXCEPT ![r] =
                 [@ EXCEPT !.attempt = @ + 1, !.pc = req[r].op]]
    /\ running' = r
    /\ UNCHANGED <<registry, call, w_vars, chain_vars, faults>>

\* the nonce build_transaction and approve_usdc put in a transaction
\* (variant: the count of mined transactions only)
BuildNonce_latest == get_transaction_count("latest")
BuildNonce == get_transaction_count("pending")

\* contract_operations.py: validate_trade_params
MIN_COLLATERAL_USDC == 10

validate_trade_params(collateral_amount, leverage, pair_index) ==
    IF collateral_amount < MIN_COLLATERAL_USDC
    THEN Err("below_min_collateral", collateral_amount)
    ELSE IF ~(2 <= leverage /\ leverage <= 50)
    THEN Err("leverage_out_of_range", leverage)
    ELSE IF pair_index < 0
    THEN Err("invalid_pair", 0)
    ELSE NoError

\* trade_operations.py: open_position up to the allowance step:
\* get_avantis_client and get_pair_index.  AvantisClient.__init__ asks the
\* node Web3.is_connected() and then calls settings.is_testnet(); config.py
\* of this tree defines no such method (AttributeError), the Settings the
\* service is deployed with may: both outcomes are kept.
OpenStart(r) ==
    /\ req[r].pc = "open_position"
    /\ CanRun(r)
    /\ \E client \in {"ok", "not_connected", "no_is_testnet"} :
        LET rq == [req[r] EXCEPT !.did_rpc = TRUE]
            pi == get_pair_index(rq.symbol)
        IN /\ Fault(client = "not_connected")
           /\ req' = [req EXCEPT ![r] =
                     IF client = "not_connected"
                     THEN Raised(rq, Err("rpc_connect_failed", <<>>))
                     ELSE IF client = "no_is_testnet"
                     THEN Raised(rq, Err("settings_attribute", <<>>))
                     ELSE IF pi = None THEN Raised(rq, Err("symbol_not_found", rq.symbol))
                     ELSE [rq EXCEPT !.pair = pi, !.pc = "allowance"]]
    /\ running' = IF req'[r].pc = "allowance" THEN r ELSE 0
    /\ UNCHANGED <<registry, call, w_vars, chain_vars>>

\* _ensure_usdc_approval: `if allowance < amount`
\* (variant: `allowance <= amount`)
NeedsApproval_le(allowance_read, amount) == allowance_read <= amount
NeedsApproval(allowance_read, amount) == allowance_read < amount

AfterAllowance(rq, a) ==
    [rq EXCEPT !.allow_read = a, !.inner = 0, !.did_rpc = TRUE,
               !.pc = IF NeedsApproval(a, rq.collateral) THEN "approve" ELSE "validate"]

\* position_queries.py: get_usdc_allowance (itself decorated), called by
\* _ensure_usdc_approval, which takes 0 for the allowance when the call fails
GetAllowance(r) ==
    /\ req[r].pc = "allowance"
    /\ CanRun(r)
    /\ \E out \in {"ok", "io_error", "not_reachable"} :
        /\ Fault(out # "ok")
        /\ req' = [req EXCEPT ![r] =
                  CASE out = "ok" -> AfterAllowance(@, allowance)
                    [] out = "io_error" ->
                         IF WrapperDecision(Err("rpc_io_error", <<>>), @.inner, max_retries) = "sleep"
                         THEN [@ EXCEPT !.did_rpc = TRUE, !.pc = "allowance_sleep"]
                         ELSE AfterAllowance(@, 0)
                    [] out = "not_reachable" -> AfterAllowance(@, 0)]
    /\ running' = IF req'[r].pc = "allowance_sleep" THEN 0 ELSE r
    /\ UNCHANGED <<registry, call, w_vars, chain_vars>>

\* the inner decorator's sleep is over
InnerWake(r) ==
    /\ req[r].pc \in {"allowance_sleep", "approve_sleep"}
    /\ running = 0
    /\ req' = [req EXCEPT ![r] =
                 [@ EXCEPT !.inner = @ + 1,
                           !.pc = IF req[r].pc = "allowance_sleep" THEN "allowance" ELSE "approve"]]
    /\ running' = r
    /\ UNCHANGED <<registry, call, w_vars, chain_vars, faults>>

\* approve_usdc: the amount approved for `amount` USDC being asked
ApproveAmount(amount) == amount

\* position_queries.py: approve_usdc (itself decorated): builds, signs and
\* sends approve(spender, amount) and returns without waiting for a receipt;
\* _ensure_usdc_approval turns a failure into ValueError("USDC approval failed")
ApproveUSDC(r) ==
    /\ req[r].pc = "approve"
    /\ CanRun(r)
    /\ \E out \in {"sent", "io_error", "sent_io_error", "not_reachable"} :
        /\ out \in {"sent", "sent_io_error"} => Len(txs) < MaxTxs
        /\ Fault(out # "sent")
        /\ txs' = IF out \in {"sent", "sent_io_error"}
                  THEN Append(txs, Tx(TokenCall.fn, r, BuildNonce, 0, 0,
                                      ApproveAmount(req[r].collateral), 0, 0))
                  ELSE txs
        /\ req' = [req EXCEPT ![r] =
                     CASE out = "sent" -> [@ EXCEPT !.inner = 0, !.pc = "validate"]
                       [] out \in {"io_error", "sent_io_error"} ->
                            IF WrapperDecision(Err("rpc_io_error", <<>>), @.inner, max_retries) = "sleep"
                            THEN [@ EXCEPT !.pc = "approve_sleep"]
                            ELSE Raised(@, Err("approval_failed_io", <<>>))
                       [] out = "not_reachable" -> Raised(@, Err("approval_failed", <<>>))]
    /\ running' = IF req'[r].pc = "validate" THEN r ELSE 0
    /\ UNCHANGED <<registry, call, w_vars, allowance, slots, balance>>

\* contract_operations.py: open_position_via_contract up to the price fetch:
\* validate_trade_params, AvantisTradingContract(...), then the awaited feed
Validate(r) ==
    /\ req[r].pc = "validate"
    /\ CanRun(r)
    /\ \E connected \in BOOLEAN :
        LET rq == req[r]
            v == validate_trade_params(rq.collateral, rq.leverage, rq.pair)
        IN /\ Fault(v = NoError /\ ~connected)
           /\ v # NoError => connected
           /\ req' = [req EXCEPT ![r] =
                     IF v # NoError THEN Raised(rq, v)
                     ELSE IF ~connected THEN Raised(rq, Err("provider_not_reachable", <<>>))
                     ELSE [rq EXCEPT !.pc = "price"]]
    /\ running' = 0
    /\ UNCHANGED <<registry, call, w_vars, chain_vars>>

MarketPrice == 65000

\* open_position_via_contract from the price answer to the receipt wait:
\* build_open_trade_tx (nonce, fees, estimate_gas) and sign_and_send
BuildAndSendOpen(r) ==
    /\ req[r].pc = "price"
    /\ CanRun(r)
    /\ \E open_price \in {0, MarketPrice}, out \in {"sent", "io_error", "estimate_failed"} :
        /\ out = "sent" => Len(txs) < MaxTxs
        /\ out # "sent" => open_price = MarketPrice
        /\ Fault(out # "sent" \/ open_price = 0)
        /\ txs' = IF out = "sent"
                  THEN Append(txs, Tx("openTrade", r, BuildNonce, req[r].pair, 0,
                                      req[r].collateral, req[r].leverage, open_price))
                  ELSE txs
        /\ req' = [req EXCEPT ![r] =
                     CASE out = "sent" -> [@ EXCEPT !.pc = "wait", !.tx = Len(txs) + 1]
                       [] out = "io_error" -> Raised(@, Err("rpc_io_error", <<>>))
                       [] out = "estimate_failed" -> Raised(@, Err("contract_logic_error", <<>>))]
    /\ running' = 0
    /\ UNCHANGED <<registry, call, w_vars, allowance, slots, balance>>

\* contract_operations.py: _format_receipt.  A receipt is
\* [transactionHash, status, logs]: the hash is [t, b, s] with t the Python
\* type ("HexBytes", "bytes", "str", "None"), b its bytes or s its characters;
\* the status is <<type, text>>; logs is the text the rest of the receipt
\* prints as.
\* tx_hash.hex() of a HexBytes is prefixed by hx (see HexPrefixes);
\* bytes.hex() has no prefix
HashText(h, hx) ==
    CASE h.t = "HexBytes" -> hx \o BytesHex(h.b)
      [] h.t = "bytes"    -> BytesHex(h.b)
      [] h.t = "str"      -> IF h.s = <<>> THEN STR_unknown ELSE h.s
      [] OTHER            -> STR_unknown

\* repr() of the hash inside str(receipt)
HashRepr(h) ==
    CASE h.t \in {"HexBytes", "bytes"} -> <<"0", "x">> \o BytesHex(h.b)
      [] h.t = "str"                   -> h.s
      [] OTHER                         -> <<"N", "o", "n", "e">>

\* str(receipt)
ReceiptStr(receipt) ==
    HashRepr(receipt.transactionHash) \o <<" ">> \o receipt.status[2] \o <<" ">>
    \o receipt.logs

\* 'BELOW_MIN_POS' in receipt_str or '4245...' in receipt_str.lower()
\* (variant: the text alone)
IsBelowMinPos_text(receipt_str) == Contains(receipt_str, STR_BELOW_MIN_POS)
IsBelowMinPos(receipt_str) ==
    \/ Contains(receipt_str, STR_BELOW_MIN_POS)
    \/ Contains(Lower(receipt_str), STR_below_min_pos_hex)

\* status == 1 or status == "0x1"
StatusOne == { <<"int", <<"1">> >>, <<"str", <<"0", "x", "1">> >> }

\* f"{collateral_amount or 'unknown'}"; None is -1
CollateralText(collateral_amount) ==
    IF collateral_amount <= 0 THEN STR_unknown ELSE FloatToStr(collateral_amount)

\* the dict returned, or the ValueError raised
_format_receipt(receipt, collateral_amount, hx) ==
    LET tx_hash == HashText(receipt.transactionHash, hx)
    IN IF receipt.status \in StatusOne
       THEN [success |-> TRUE, tx_hash |-> tx_hash, status |-> "confirmed"]
       ELSE IF IsBelowMinPos(ReceiptStr(receipt))
       THEN Err("below_min_pos",
                [collateral |-> CollateralText(collateral_amount), hash |-> tx_hash])
       ELSE Err("reverted", tx_hash)

\* the receipt of the mined transaction t
Receipt(t) ==
    [ transactionHash |-> TxHash(t.nonce),
      status |-> IF t.status = "ok" THEN <<"int", <<"1">> >> ELSE <<"int", <<"0">> >>,
      logs |-> <<>> ]

\* TRUE when x is an exception
IsError(x) == "id" \in DOMAIN x /\ x.id # "none"

\* wait_for_transaction_receipt returned: _format_receipt and the return of
\* open_position ({"success": True, ...})
OpenReceipt(r) ==
    /\ req[r].pc = "wait"
    /\ CanRun(r)
    /\ txs[req[r].tx].status \in {"ok", "reverted"}
    /\ \E hx \in HexPrefixes :
        LET f == _format_receipt(Receipt(txs[req[r].tx]), txs[req[r].tx].amount, hx)
        IN req' = [req EXCEPT ![r] =
                     IF IsError(f) THEN Raised(@, f)
                     ELSE Leave(@, "done", "success")]
    /\ running' = 0
    /\ UNCHANGED <<registry, call, w_vars, chain_vars, faults>>

\* wait_for_transaction_receipt lost the connection to the node
WaitFails(r) ==
    /\ req[r].pc = "wait"
    /\ CanRun(r)
    /\ Fault(TRUE)
    /\ req' = [req EXCEPT ![r] = Raised(@, Err("rpc_io_error", <<>>))]
    /\ running' = 0
    /\ UNCHANGED <<registry, call, w_vars, chain_vars>>


\* contract_operations.py: _decode_trade_struct: {} for the zero trader,
\* else the decoded record
\* (variant: no test of the trader address)
_decode_trade_struct_nocheck(raw) == raw
_decode_trade_struct(raw) ==
    IF raw.trader = ZeroAddress THEN EmptyDict ELSE raw

\* the request record once the scan of pair rq.pair is over
NextPair(rq) ==
    IF rq.pair + 1 < MaxPairs
    THEN [rq EXCEPT !.pair = @ + 1, !.pc = "count"]
    ELSE Leave(rq, "done", "success")

\* the request record once slot rq.idx has been dealt with
NextSlot(rq) ==
    IF rq.idx + 1 < rq.count
    THEN [rq EXCEPT !.idx = @ + 1]
    ELSE NextPair(rq)

\* close_all_positions_via_contract up to the first awaited read:
\* AvantisTradingContract(...) and _get_trading_storage_contract(...)
CloseAllStart(r) ==
    /\ req[r].pc = "close_all_positions"
    /\ CanRun(r)
    /\ \E connected \in BOOLEAN :
        /\ Fault(~connected)
        /\ req' = [req EXCEPT ![r] =
                  IF ~connected
                  THEN Raised([@ EXCEPT !.did_rpc = TRUE], Err("provider_not_reachable", <<>>))
                  ELSE [@ EXCEPT !.did_rpc = TRUE, !.pair = 0, !.pc = "count"]]
    /\ running' = 0
    /\ UNCHANGED <<registry, call, w_vars, chain_vars>>

\* count = await asyncio.to_thread(_count_trades, pair_index)
CountTrades(r) ==
    /\ req[r].pc = "count"
    /\ CanRun(r)
    /\ \E out \in {"ok", "failed"} :
        LET rq == req[r]
            count == openTradesCount(rq.pair)
        IN /\ Fault(out = "failed")
           /\ req' = [req EXCEPT ![r] =
                     IF out = "failed" \/ count = 0
                     THEN NextPair(rq)
                     ELSE [rq EXCEPT !.count = count, !.idx = 0, !.pc = "read"]]
    /\ running' = 0
    /\ UNCHANGED <<registry, call, w_vars, chain_vars>>

\* trade_raw = await asyncio.to_thread(_read_trade), then for an occupied
\* slot build_close_trade_market_tx and sign_and_send; any failure is logged
\* and the loop goes on
ReadAndClose(r) ==
    /\ req[r].pc = "read"
    /\ CanRun(r)
    /\ \E out \in {"ok", "failed"} :
        LET rq == req[r]
            trade == _decode_trade_struct(slots[rq.pair][rq.idx])
            sends == out = "ok" /\ trade # EmptyDict /\ trade.size # 0
        IN /\ sends => Len(txs) < MaxTxs
           /\ Fault(out = "failed")
           /\ txs' = IF sends
                     THEN Append(txs, Tx("closeTradeMarket", r, BuildNonce, rq.pair, rq.idx,
                                         trade.size, 0, 0))
                     ELSE txs
           /\ req' = [req EXCEPT ![r] = NextSlot(rq)]
    /\ running' = 0
    /\ UNCHANGED <<registry, call, w_vars, allowance, slots, balance>>

(***************************************************************************)
(* The service with NumReq requests in flight on one event loop            *)
(***************************************************************************)
\* (the trades of pair 0 are shorts, the others longs)
InitTrade(p, i) ==
    [trader |-> Wallet, pair_index |-> p, index |-> i, size |-> 50, leverage |-> 10,
     buy |-> (p # 0), tp |-> <<>>, sl |-> <<>>]

\* the sets of slots the wallet may hold a trade in when the service starts
InitOccupied ==
    { {}, {<<0, 0>>, <<MaxPairs - 1, 1>>} }

Init ==
    /\ w_args = [max |-> max_retries, delay |-> retry_delay, backoff |-> default_backoff]
    /\ w_pc = "returned"
    /\ w_attempt = 0
    /\ w_current_delay = retry_delay
    /\ w_last_error = NoError
    /\ w_result = NoError
    /\ w_calls = 0
    /\ w_func_out = NoError
    /\ w_sleeps = <<>>
    /\ allowance \in {0, 50}
    /\ \E occ \in InitOccupied :
         slots = [p \in Pairs |-> [i \in SlotIdx |->
                    IF <<p, i>> \in occ THEN InitTrade(p, i) ELSE ZeroTrade]]
    /\ txs = <<>>
    /\ balance = InitBalance
    /\ running = 0
    /\ req = [r \in Procs |-> IdleReq]
    /\ faults = 0
    /\ call = NoCall
    /\ registry = InitRegistry

Next ==
    \/ Mine
    \/ \E r \in Procs :
        \/ StartOpen(r)
        \/ StartCloseAll(r)
        \/ RetryWake(r)
        \/ OpenStart(r)
        \/ GetAllowance(r)
        \/ InnerWake(r)
        \/ ApproveUSDC(r)
        \/ Validate(r)
        \/ BuildAndSendOpen(r)
        \/ OpenReceipt(r)
        \/ WaitFails(r)
        \/ CloseAllStart(r)
        \/ CountTrades(r)
        \/ ReadAndClose(r)

Spec == Init /\ [][Next]_vars


(***************************************************************************)
(* Position listings                                                       *)
(***************************************************************************)
ListOps ==
    {"get_positions_via_contract", "get_all_open_trades_for_trader", "get_positions"}

\* get_positions with SDK_AVAILABLE: the listing is _get_positions_via_sdk
SdkOp == "_get_positions_via_sdk"

\* the operations wrapped in @retry_on_network_error()
Decorated == {"open_position", "close_all_positions", "get_positions", SdkOp}

\* the slots holding a trade of the wallet
Occupied == {s \in Pairs \X SlotIdx : slots[s[1]][s[2]].trader # ZeroAddress}

\* an exception leaves the operation of request rq
Fail(rq, e) ==
    IF rq.op \in Decorated THEN Raised(rq, e)
    ELSE Leave([rq EXCEPT !.last_error = e], "done", "error")

\* the listings are asked for one after the other
\* (occ0, history: the slots holding a trade when the listing is asked for)
StartList(r) ==
    /\ \A q \in Procs : q < r => req[q].pc = "done"
    /\ req[r].pc = "idle"
    /\ running = 0
    /\ \E op \in ListOps \cup {SdkOp} :
         req' = [req EXCEPT ![r] = [@ EXCEPT !.op = op, !.pc = op, !.occ0 = Occupied]]
    /\ running' = r
    /\ UNCHANGED <<registry, call, w_vars, chain_vars, faults>>

\* PAIR_INDEX_TO_SYMBOL.get(pair_index)
get_symbol(pair_index) ==
    IF \E e \in registry.PAIR_INDEX_TO_SYMBOL : e[2] = pair_index
    THEN (CHOOSE e \in registry.PAIR_INDEX_TO_SYMBOL : e[2] = pair_index)[1]
    ELSE <<>>

\* the record get_positions_via_contract appends for a decoded trade, and the
\* one get_open_trade_full returns; raw_trader (history) is the trader field
\* of the struct the record was decoded from
TradeRecord(trade, raw) ==
    [ trader |-> trade.trader, pair_index |-> trade.pair_index, index |-> trade.index,
      position_size_usdc |-> trade.size, leverage |-> trade.leverage,
      raw_trader |-> raw.trader ]

\* the record get_positions builds from a trade of get_all_open_trades_for_trader;
\* collateral is position_size_usdc / leverage, kept as <<numerator, denominator>>
\* (index, history: the slot the trade was read from)
FormatPosition(t) ==
    [ pair_index |-> t.pair_index, symbol |-> get_symbol(t.pair_index),
      collateral |-> IF t.leverage > 0 THEN <<t.position_size_usdc, t.leverage>> ELSE <<0, 1>>,
      leverage |-> t.leverage, raw_trader |-> t.raw_trader, index |-> t.index ]

\* the listing returns once the loop over the pairs is over
ListNextPair(rq) ==
    IF rq.pair + 1 < MaxPairs
    THEN [rq EXCEPT !.pair = @ + 1, !.pc = "l_count"]
    ELSE Leave([rq EXCEPT !.results =
                      IF rq.op = "get_positions"
                      THEN [k \in 1..Len(rq.results) |-> FormatPosition(rq.results[k])]
                      ELSE rq.results],
               "done", "success")

ListNextSlot(rq) ==
    IF rq.idx + 1 < rq.count
    THEN [rq EXCEPT !.idx = @ + 1]
    ELSE ListNextPair(rq)

\* the listing up to its first awaited read: the contract objects are built
\* (_get_trading_storage_contract raises when the node is not reachable)
ListStart(r) ==
    /\ req[r].pc \in ListOps
    /\ CanRun(r)
    /\ \E connected \in BOOLEAN :
        /\ Fault(~connected)
        /\ req' = [req EXCEPT ![r] =
                     IF ~connected
                     THEN Fail([@ EXCEPT !.did_rpc = TRUE], Err("provider_not_reachable", <<>>))
                     ELSE [@ EXCEPT !.did_rpc = TRUE, !.pair = 0, !.results = <<>>,
                                    !.pc = "l_count"]]
    /\ running' = 0
    /\ UNCHANGED <<registry, call, w_vars, chain_vars>>

\* except Exception after the count read: log and continue with the next pair
CountFailed_raise(rq) == Fail(rq, Err("rpc_io_error", <<>>))
CountFailed(rq) == ListNextPair(rq)

\* count = await asyncio.to_thread(_count_trades, pair_index); a failure is
\* logged and the pair is skipped
ListCount(r) ==
    /\ req[r].pc = "l_count"
    /\ CanRun(r)
    /\ \E out \in {"ok", "failed"} :
        LET rq == req[r]
            count == openTradesCount(rq.pair)
        IN /\ Fault(out = "failed")
           /\ req' = [req EXCEPT ![r] =
                        IF out = "failed" THEN CountFailed(rq)
                        ELSE IF count = 0 THEN ListNextPair(rq)
                        ELSE [rq EXCEPT !.count = count, !.idx = 0, !.pc = "l_read"]]
    /\ running' = 0
    /\ UNCHANGED <<registry, call, w_vars, chain_vars>>

\* the awaited read of slot (pair, idx) and what the loop body does with it:
\* get_positions_via_contract logs a failed read and goes on;
\* get_all_open_trades_for_trader lets the failure of get_open_trade_full out
ListRead(r) ==
    /\ req[r].pc = "l_read"
    /\ CanRun(r)
    /\ \E out \in {"ok", "failed"} :
        LET rq == req[r]
            raw == slots[rq.pair][rq.idx]
            trade == _decode_trade_struct(raw)
            seen == [rq EXCEPT !.zero_seen = @ \/ raw.trader = ZeroAddress]
        IN /\ Fault(out = "failed")
           /\ req' = [req EXCEPT ![r] =
                        IF out = "failed"
                        THEN IF rq.op = "get_positions_via_contract"
                             THEN ListNextSlot(rq)
                             ELSE Fail(rq, Err("rpc_io_error", <<>>))
                        ELSE IF trade = EmptyDict
                        THEN ListNextSlot(seen)
                        ELSE ListNextSlot([seen EXCEPT
                                 !.results = Append(@, TradeRecord(trade, raw))])]
    /\ running' = 0
    /\ UNCHANGED <<registry, call, w_vars, chain_vars>>

\* the orders a list of the elements of S can be in
Orderings(S) ==
    {q \in [1..Cardinality(S) -> S] : \A j, k \in 1..Cardinality(S) : q[j] = q[k] => j = k}

\* the dict _get_positions_via_sdk appends for a trade of the SDK
SdkPosition(t) ==
    [ pair_index |-> t.pair_index, trade_index |-> t.index, index |-> t.index,
      symbol |-> get_symbol(t.pair_index), is_long |-> t.buy,
      collateral |-> t.size, leverage |-> t.leverage, raw_trader |-> t.trader ]

\* _get_positions_via_sdk: long_trades, short_trades = await get_trades(...);
\* the positions are the long trades, then the short trades, each list in the
\* order the SDK gives it (any); the price update that follows changes no
\* record's place.  A failure of get_trades leaves get_positions.
_get_positions_via_sdk(r) ==
    /\ req[r].pc = SdkOp
    /\ CanRun(r)
    /\ \E out \in {"ok", "failed"} :
        LET rq == req[r]
            longs == {s \in Occupied : slots[s[1]][s[2]].buy}
        IN /\ Fault(out = "failed")
           /\ \E long_trades \in Orderings(longs),
                 short_trades \in Orderings(Occupied \ longs) :
                LET trades == long_trades \o short_trades
                IN req' = [req EXCEPT ![r] =
                        IF out = "failed"
                        THEN Fail([rq EXCEPT !.did_rpc = TRUE], Err("rpc_io_error", <<>>))
                        ELSE Leave([rq EXCEPT !.did_rpc = TRUE, !.results =
                                 [k \in 1..Len(trades) |->
                                    SdkPosition(slots[trades[k][1]][trades[k][2]])]],
                               "done", "success")]
    /\ running' = 0
    /\ UNCHANGED <<registry, call, w_vars, chain_vars>>

\* a trade of the wallet is closed on chain by someone else: a keeper (the
\* collateral comes back) or a liquidation (nothing comes back)
EnvClose ==
    /\ \E p \in Pairs, i \in SlotIdx :
        /\ slots[p][i].trader # ZeroAddress
        /\ slots' = [slots EXCEPT ![p][i] = ZeroTrade]
        /\ \E back \in {0, slots[p][i].size} : balance' = balance + back
    /\ UNCHANGED <<registry, call, w_vars, allowance, txs, engine_vars>>

\* the sets of slots holding a trade when a listing is asked for: none, a
\* pair with a hole below its trade, two pairs, a pair with two trades
InitOccupiedList ==
    { {}, {<<0, MaxSlots - 1>>}, {<<0, 0>>, <<MaxPairs - 1, 1>>}, {<<0, 0>>, <<0, 1>>} }

InitList ==
    /\ w_args = [max |-> max_retries, delay |-> retry_delay, backoff |-> default_backoff]
    /\ w_pc = "returned"
    /\ w_attempt = 0
    /\ w_current_delay = retry_delay
    /\ w_last_error = NoError
    /\ w_result = NoError
    /\ w_calls = 0
    /\ w_func_out = NoError
    /\ w_sleeps = <<>>
    /\ allowance = 0
    /\ \E occ \in InitOccupiedList :
         slots = [p \in Pairs |-> [i \in SlotIdx |->
                    IF <<p, i>> \in occ THEN InitTrade(p, i) ELSE ZeroTrade]]
    /\ txs = <<>>
    /\ balance = InitBalance
    /\ running = 0
    /\ req = [r \in Procs |-> IdleReq]
    /\ faults = 0
    /\ call = NoCall
    /\ registry = InitRegistry

NextList ==
    \/ EnvClose
    \/ \E r \in Procs :
        \/ StartList(r)
        \/ ListStart(r)
        \/ ListCount(r)
        \/ ListRead(r)
        \/ _get_positions_via_sdk(r)
        \/ RetryWake(r)

SpecList == InitList /\ [][NextList]_vars


(***************************************************************************)
(* _format_receipt and validate_trade_params called on their own           *)
(***************************************************************************)
\* ord() of a capital letter or of the underscore
Ord(c) ==
    IF c = "_" THEN 95 ELSE 64 + (CHOOSE i \in 1..26 : UpperChars[i] = c)

\* str.encode()
AsciiBytes(str) == [i \in 1..Len(str) |-> Ord(str[i])]

\* the receipts handed to _format_receipt: their statuses, ...
ReceiptStatuses ==
    { <<"int", <<"1">> >>, <<"str", <<"0", "x", "1">> >>, <<"int", <<"0">> >>,
      <<"str", <<"0", "x", "0">> >>, <<"None", <<"N", "o", "n", "e">> >> }

\* ... their transaction hashes, ...
ReceiptHashes ==
    { [t |-> ty, b |-> b, s |-> <<>>] : ty \in {"HexBytes", "bytes"},
                                        b \in { <<171, 0>>, <<18, 52, 255>> } }
    \cup { [t |-> "str", b |-> <<>>, s |-> str] :
              str \in { <<"0","x","A","B","0","0">>, <<>> } }
    \cup { [t |-> "None", b |-> <<>>, s |-> <<>>] }

\* ... and what else they print: nothing, the signature as text, its hex
\* encoding in lower or upper case inside revert data, another reason
ReceiptLogs(sig) ==
    CASE sig = "text"  -> <<"r","e","a","s","o","n",":"," ">> \o STR_BELOW_MIN_POS
      [] sig = "hex"   -> <<"0","x","0","8","c","3","7","9","a","0">> \o BytesHex(AsciiBytes(STR_BELOW_MIN_POS))
      [] sig = "HEX"   -> Upper(BytesHex(AsciiBytes(STR_BELOW_MIN_POS))) \o <<"0", "0">>
      [] sig = "other" -> <<"r","e","a","s","o","n",":"," ","S","L","I","P","P","A","G","E">>
      [] OTHER         -> <<>>

FormatReceiptCalls ==
    { [fn |-> "_format_receipt", done |-> FALSE, out |-> NoError,
       args |-> [ receipt |-> [transactionHash |-> h, status |-> st, logs |-> ReceiptLogs(sig)],
                  collateral_amount |-> c, sig |-> sig ]] :
        h \in ReceiptHashes, st \in ReceiptStatuses,
        sig \in {"none", "text", "hex", "HEX", "other"}, c \in {None, 50} }

\* the triples handed to validate_trade_params
ValidateCalls ==
    { [fn |-> "validate_trade_params", done |-> FALSE, out |-> NoError,
       args |-> [collateral |-> c, leverage |-> l, pair_index |-> p]] :
        c \in {5, 9, 10, 50}, l \in {1, 2, 50, 51}, p \in {-1, 0, 1, 99} }

\* Python `a or b` for an Optional[int]: b when a is None or 0
PyOr(a, b) == IF a = None \/ a = 0 THEN b ELSE a

\* direct_contracts.py: build_transaction: maxFeePerGas and
\* maxPriorityFeePerGas, gas_price being web3.eth.gas_price
BuildFees(max_fee_per_gas, max_priority_fee_per_gas, gas_price) ==
    IF max_fee_per_gas = None \/ max_priority_fee_per_gas = None
    THEN LET base_fee == gas_price
             tip == base_fee \div 10
             prio == PyOr(max_priority_fee_per_gas, tip)
         IN [ maxFeePerGas |-> PyOr(max_fee_per_gas, base_fee + prio),
              maxPriorityFeePerGas |-> prio ]
    ELSE [ maxFeePerGas |-> max_fee_per_gas,
           maxPriorityFeePerGas |-> max_priority_fee_per_gas ]

\* what fn.estimate_gas returns when it does not raise
EstimatedGas == 150000

\* direct_contracts.py: build_transaction: the transaction dict, or the
\* error of fn.estimate_gas (called only when gas is None)
build_transaction(gas, max_fee_per_gas, max_priority_fee_per_gas, gas_price, estimate_ok) ==
    LET fees == BuildFees(max_fee_per_gas, max_priority_fee_per_gas, gas_price)
    IN IF gas = None /\ ~estimate_ok
       THEN Err("contract_logic_error", <<>>)
       ELSE [ maxFeePerGas |-> fees.maxFeePerGas,
              maxPriorityFeePerGas |-> fees.maxPriorityFeePerGas,
              gas |-> IF gas = None THEN EstimatedGas ELSE gas ]

\* the convenience wrappers: build_update_tp_sl_tx and build_update_margin_tx
\* pass `gas or 500_000`, build_cancel_open_limit_order_tx `gas or 300_000`,
\* build_open_trade_tx and build_close_trade_market_tx pass gas as it is
Builders ==
    { "build_open_trade_tx", "build_close_trade_market_tx", "build_update_tp_sl_tx",
      "build_update_margin_tx", "build_cancel_open_limit_order_tx" }

BuilderGas(builder, gas) ==
    CASE builder \in {"build_update_tp_sl_tx", "build_update_margin_tx"} -> PyOr(gas, 500000)
      [] builder = "build_cancel_open_limit_order_tx" -> PyOr(gas, 300000)
      [] OTHER -> gas

\* the calls of the builders: with and without gas and fees, the gas price
\* from 1 wei up, gas estimation succeeding or not
MaxGasPrice == 12

BuilderCalls ==
    { [fn |-> b, done |-> FALSE, out |-> NoError,
       args |-> [ gas |-> g, max_fee_per_gas |-> mf, max_priority_fee_per_gas |-> mp,
                  gas_price |-> gp, estimate_ok |-> ok ]] :
        b \in Builders, g \in {None, 21000}, mf \in {None, 30}, mp \in {None, 2},
        gp \in 1..MaxGasPrice, ok \in BOOLEAN }

\* ---------------------------------------------------------------------------
\* Python numbers.  An int has no width: it is kept as its binary digits, most
\* significant first, without leading zeros (<<>> is 0).  A float is an IEEE-754
\* double [m, e] of value m * 2^e, m being 53 binary digits that start with 1
\* (<<>> for 0.0); every operation rounds to nearest, ties to even.
Front(s) == SubSeq(s, 1, Len(s) - 1)

Last(s) == s[Len(s)]

Zeros(n) == [i \in 1..n |-> 0]

\* the digits that follow the leading zeros
Strip(b) ==
    LET ones == {i \in 1..Len(b) : b[i] = 1}
    IN IF ones = {} THEN <<>>
       ELSE SubSeq(b, CHOOSE i \in ones : \A j \in ones : i <= j, Len(b))

\* an int below 2^31
NatToBits(n) == Strip([i \in 1..31 |-> (n \div (2 ^ (31 - i))) % 2])

RECURSIVE BitsToNat(_)
BitsToNat(b) == IF b = <<>> THEN 0 ELSE 2 * BitsToNat(Front(b)) + Last(b)

\* int + 1 and int - 1 (0 - 1 is not asked for)
Inc(b) ==
    LET zeros == {i \in 1..Len(b) : b[i] = 0}
        k == CHOOSE i \in zeros : \A j \in zeros : j <= i
    IN IF zeros = {} THEN <<1>> \o Zeros(Len(b))
       ELSE [i \in 1..Len(b) |-> IF i < k THEN b[i] ELSE IF i = k THEN 1 ELSE 0]

Dec(b) ==
    LET ones == {i \in 1..Len(b) : b[i] = 1}
        k == CHOOSE i \in ones : \A j \in ones : j <= i
    IN IF ones = {} THEN <<>>
       ELSE Strip([i \in 1..Len(b) |-> IF i < k THEN b[i] ELSE IF i = k THEN 0 ELSE 1])

TrailingZeros(b) ==
    LET ones == {i \in 1..Len(b) : b[i] = 1}
    IN IF ones = {} THEN 0
       ELSE Len(b) - (CHOOSE i \in ones : \A j \in ones : j <= i)

\* the digits taken six at a time (base 64), and back
ToLimbs(b) ==
    LET n == (Len(b) + 5) \div 6
        p == Zeros(6 * n - Len(b)) \o b
    IN [i \in 1..n |-> 32 * p[6*i - 5] + 16 * p[6*i - 4] + 8 * p[6*i - 3]
                       + 4 * p[6*i - 2] + 2 * p[6*i - 1] + p[6*i]]

FromLimbs(l) ==
    Strip([j \in 1..(6 * Len(l)) |-> (l[((j - 1) \div 6) + 1] \div (2 ^ (5 - ((j - 1) % 6)))) % 2])

\* int * int, the second factor below 2^24
RECURSIVE MulCarry(_, _, _)
MulCarry(l, c, carry) ==
    IF l = <<>> THEN ToLimbs(NatToBits(carry))
    ELSE LET t == Last(l) * c + carry
         IN MulCarry(Front(l), c, t \div 64) \o <<t % 64>>

IntMul(b, c) == FromLimbs(MulCarry(ToLimbs(b), c, 0))

\* divmod(int, d), d below 2^24: the quotient and the remainder
RECURSIVE DivLoop(_, _, _, _)
DivLoop(l, d, q, r) ==
    IF l = <<>> THEN [q |-> FromLimbs(q), r |-> r]
    ELSE LET t == 64 * r + Head(l)
         IN DivLoop(Tail(l), d, Append(q, t \div d), t % d)

DivSmall(b, d) == DivLoop(ToLimbs(b), d, <<>>, 0)

\* 10 ** k, and int * 10 ** k
\* (5^k is taken in two factors once it passes 2^31, as for 10 ** 18)
Pow10(k) ==
    IF k <= 13 THEN NatToBits(5 ^ k) \o Zeros(k)
    ELSE IntMul(NatToBits(5 ^ (k - 9)), 5 ^ 9) \o Zeros(k)

ScaleUp(b, k) == IF b = <<>> THEN <<>> ELSE IntMul(b, 5 ^ k) \o Zeros(k)

\* the double nearest to (bits + a fraction that is non-zero iff sticky) * 2^e
Round53(bits, sticky, e) ==
    IF bits = <<>> THEN [m |-> <<>>, e |-> 0]
    ELSE IF Len(bits) <= 53
    THEN [m |-> bits \o Zeros(53 - Len(bits)), e |-> e - (53 - Len(bits))]
    ELSE LET keep == SubSeq(bits, 1, 53)
             rest == SubSeq(bits, 55, Len(bits))
             st   == sticky \/ (\E i \in 1..Len(rest) : rest[i] = 1)
             up   == bits[54] = 1 /\ (st \/ keep[53] = 1)
             m1   == IF up THEN Inc(keep) ELSE keep
             e1   == e + Len(bits) - 53
         IN IF Len(m1) = 54 THEN [m |-> SubSeq(m1, 1, 53), e |-> e1 + 1]
                            ELSE [m |-> m1, e |-> e1]

\* float(n) of an int
ToFloat(bits) == Round53(bits, FALSE, 0)

\* float / d and float * d, d an int that is a double itself, as 10 ** 6 and
\* 10 ** 10 are.  The odd part of d is below 2^24, or 5^10 times a factor
\* below 2^24 (a leverage written on chain): the division is then made in
\* two steps, the remainders of both telling whether it is exact; the odd
\* part of 10 ** 18 is 5^9 * 5^9, and the product is made in two steps
FloatDiv(a, d) ==
    IF a.m = <<>> THEN a
    ELSE LET k   == TrailingZeros(d)
             odd == SubSeq(d, 1, Len(d) - k)
             f   == IF Len(odd) <= 24 THEN <<BitsToNat(odd), 1>>
                    ELSE <<5 ^ 10, BitsToNat(DivSmall(odd, 5 ^ 10).q)>>
             d1  == DivSmall(a.m \o Zeros(64), f[1])
             d2  == DivSmall(d1.q, f[2])
         IN Round53(d2.q, d1.r # 0 \/ d2.r # 0, a.e - 64 - k)

FloatMul(a, d) ==
    IF a.m = <<>> THEN a
    ELSE LET k   == TrailingZeros(d)
             odd == SubSeq(d, 1, Len(d) - k)
         IN IF Len(odd) <= 24
            THEN Round53(IntMul(a.m, BitsToNat(odd)), FALSE, a.e + k)
            ELSE Round53(IntMul(IntMul(a.m, 5 ^ 9), BitsToNat(DivSmall(odd, 5 ^ 9).q)),
                         FALSE, a.e + k)

\* int(x) of a float x >= 0: the fraction is cut off
Trunc(a) ==
    IF a.m = <<>> \/ a.e <= -53 THEN <<>>
    ELSE IF a.e >= 0 THEN a.m \o Zeros(a.e)
    ELSE SubSeq(a.m, 1, 53 + a.e)

\* the float a decimal literal n / 10^places denotes (the parser rounds
\* correctly, as the division does)
FloatLit(n, places) == FloatDiv(ToFloat(NatToBits(n)), Pow10(places))

\* Decimal(str(x)) * Decimal(10 ** k) of the float written n / 10^places, as
\* an int: decimal arithmetic is exact, int() cuts the fraction off
DecimalScaled(n, places, k) ==
    IF k >= places THEN ScaleUp(NatToBits(n), k - places)
    ELSE NatToBits(n \div (10 ^ (places - k)))

\* ---------------------------------------------------------------------------
\* contract_operations.py: the scales of the on-chain units
USDC_DECIMALS == 6

PRICE_DECIMALS == 10

LEVERAGE_PRECISION == Pow10(10)

\* a float argument, written as the decimal literal n / 10^p; None is n = -1
Lit(n, p) == [n |-> n, p |-> p]

NoneLit == Lit(None, 0)

Float(l) == FloatLit(l.n, l.p)

\* SLIPPAGE_DEFAULT = 1.0, and the 1.0 of estimate_trade_gas
SLIPPAGE_DEFAULT == Lit(1, 0)

\* `x if v else 0` of an Optional[float]: None and 0.0 are false
Truthy(l) == l.n # None /\ l.n # 0

\* int(x * (10 ** decimals)) and float(raw) / float(10 ** decimals)
ToChain(x, decimals) == Trunc(FloatMul(x, Pow10(decimals)))

ToHuman(raw, decimals) == FloatDiv(ToFloat(raw), Pow10(decimals))

\* open_position_via_contract: the human values in on-chain units
\* (leverage is an int, so leverage * LEVERAGE_PRECISION is exact)
collateral_usdc_int(collateral_amount) == ToChain(Float(collateral_amount), USDC_DECIMALS)

leverage_int(leverage) == ScaleUp(NatToBits(leverage), 10)

tp_price(take_profit) ==
    IF Truthy(take_profit) THEN ToChain(Float(take_profit), PRICE_DECIMALS) ELSE <<>>

slippage_p(slippage_percentage) == ToChain(Float(slippage_percentage), PRICE_DECIMALS)

\* the three places where the arguments of a trade become on-chain integers,
\* and the integers each of them makes of the same arguments
UnitPaths ==
    { "open_position_via_contract", "prepare_open_position_transaction",
      "estimate_trade_gas" }

OnChainUnits(path, a) ==
    CASE path = "open_position_via_contract" ->
           [ collateral |-> collateral_usdc_int(a.collateral),
             leverage   |-> leverage_int(a.leverage),
             tp         |-> tp_price(a.take_profit),
             sl         |-> tp_price(a.stop_loss),
             slippage   |-> slippage_p(SLIPPAGE_DEFAULT) ]
      [] path = "prepare_open_position_transaction" ->
           [ collateral |-> DecimalScaled(a.collateral.n, a.collateral.p, 6),
             leverage   |-> NatToBits(a.leverage),
             tp         |-> IF a.take_profit.n # None
                            THEN DecimalScaled(a.take_profit.n, a.take_profit.p, 8)
                            ELSE <<>>,
             sl         |-> IF a.stop_loss.n # None
                            THEN DecimalScaled(a.stop_loss.n, a.stop_loss.p, 8)
                            ELSE <<>> ]
      [] path = "estimate_trade_gas" ->
           [ collateral |-> ToChain(Float(a.collateral), 6),
             leverage   |-> NatToBits(a.leverage),
             slippage   |-> ToChain(Float(SLIPPAGE_DEFAULT), 8) ]

\* the arguments: collaterals 10 and 16.06, take-profits and stop-losses
\* absent, whole and with two decimals
UnitCalls ==
    { [fn |-> f, done |-> FALSE, out |-> NoError,
       args |-> [ collateral |-> c, leverage |-> l, take_profit |-> tp, stop_loss |-> sl ]] :
        f \in UnitPaths, c \in {Lit(10, 0), Lit(1606, 2)}, l \in {2, 10},
        tp \in {NoneLit, Lit(3, 0), Lit(41, 2)}, sl \in {NoneLit, Lit(2, 0)} }

\* the trade open_position_via_contract writes on chain (build_trade_struct)
\* for a collateral and a leverage, at an open price of 3 USD
OpenedTrade(collateral_amount, leverage) ==
    [ trader |-> Wallet, positionSizeUSDC |-> collateral_usdc_int(collateral_amount),
      openPrice |-> ToChain(Float(Lit(3, 0)), PRICE_DECIMALS),
      leverage |-> leverage_int(leverage) ]

\* _decode_trade_struct with the fields of the record: {} for no trade, else
\* the raw and the human fields
DecodeTradeFields(raw) ==
    IF raw.trader = ZeroAddress THEN EmptyDict
    ELSE [ trader |-> raw.trader,
           position_size_usdc_raw |-> raw.positionSizeUSDC,
           position_size_usdc |-> ToHuman(raw.positionSizeUSDC, USDC_DECIMALS),
           open_price_raw |-> raw.openPrice,
           open_price |-> ToHuman(raw.openPrice, PRICE_DECIMALS),
           leverage |-> raw.leverage ]

\* get_positions (no SDK): `position_size_usdc / leverage if leverage > 0 else 0`
PositionCollateral(trade) ==
    IF trade.leverage # <<>> THEN FloatDiv(trade.position_size_usdc, trade.leverage)
    ELSE ToFloat(<<>>)

\* get_balance: margin_used = sum(pos.get("collateral", 0) for pos in positions),
\* for the positions of a wallet that holds at most one (0 + x is x)
margin_used(collaterals) ==
    IF collaterals = <<>> THEN ToFloat(<<>>) ELSE collaterals[1]

\* the raw trades handed to _decode_trade_struct: every small amount and
\* price, and the trades open_position_via_contract writes (opened: the
\* human values they were opened with)
MaxRaw == 260

DecodeCalls ==
    { [fn |-> "_decode_trade_struct", done |-> FALSE, out |-> NoError,
       args |-> [ raw |-> [ trader |-> Wallet, positionSizeUSDC |-> NatToBits(x),
                            openPrice |-> NatToBits(x), leverage |-> leverage_int(2) ],
                  opened |-> [collateral |-> NoneLit, leverage |-> None] ]] :
        x \in 0..MaxRaw }
    \cup
    { [fn |-> "_decode_trade_struct", done |-> FALSE, out |-> NoError,
       args |-> [ raw |-> OpenedTrade(c, l),
                  opened |-> [collateral |-> c, leverage |-> l] ]] :
        c \in {Lit(10, 0), Lit(1606, 2)}, l \in {2, 10} }

\* ---------------------------------------------------------------------------
\* trade_operations.py: open_position, what it writes to the log and sends to
\* the node out of the private key it is given
STR_pk_provided ==
    <<"P","r","i","v","a","t","e"," ","k","e","y"," ","p","r","o","v","i","d","e","d",":"," ">>

STR_pk_derived ==
    <<"D","e","r","i","v","e","d"," ","a","d","d","r","e","s","s"," ","f","r","o","m"," ","p","r","i","v","a","t","e"," ","k","e","y",":"," ">>

STR_dots == <<".", ".", ".">>

\* a private key of 32 bytes: 64 hex digits, with or without the 0x prefix
KeyDigits(seed) == [i \in 1..64 |-> HexDigits[((i * seed + (i \div 7)) % 16) + 1]]

PrivateKeys == { <<"0", "x">> \o KeyDigits(3), KeyDigits(5), <<"0", "x">> \o KeyDigits(11) }

\* Python slices private_key[:n] and private_key[-n:]
SliceTo(s, n) == SubSeq(s, 1, IF Len(s) < n THEN Len(s) ELSE n)

SliceLast(s, n) == SubSeq(s, IF Len(s) < n THEN 1 ELSE Len(s) - n + 1, Len(s))

\* the value of a hexadecimal digit
HexVal(c) == (CHOOSE i \in 1..16 : HexDigits[i] = LowerChar(c)) - 1

\* a hex string without its 0x prefix
Strip0x(s) == IF SliceTo(s, 2) = <<"0", "x">> THEN SubSeq(s, 3, Len(s)) ELSE s

\* Web3.to_checksum_address (EIP-55): the address in lower case, each letter
\* then in upper case when its digit of the hash of the lower-case text is 8
\* or more.  The hash is a mixing of the neighbouring digits here.
to_checksum_address(address) ==
    LET low == Lower(Strip0x(address))
        n   == Len(low)
        h   == [i \in 1..n |-> (5 * HexVal(low[i]) + HexVal(low[(i % n) + 1]) + i) % 16]
    IN <<"0", "x">> \o [i \in 1..n |-> IF h[i] >= 8 THEN UpperChar(low[i]) ELSE low[i]]

\* Account.from_key(private_key).address: the 20 bytes the 32 bytes of the
\* key determine, with or without the 0x prefix, in checksum form (the
\* derivation is one-way: a mixing of the digits here, each key with an
\* address of its own)
DerivedAddress(private_key) ==
    LET d == Lower(Strip0x(private_key))
    IN to_checksum_address(
         [i \in 1..40 |-> HexDigits[((7 * HexVal(d[i]) + 3 * HexVal(d[i + 12])
                                      + HexVal(d[65 - i]) + i) % 16) + 1]])

\* sign_and_send: account.sign_transaction(tx) and
\* send_raw_transaction(signed.rawTransaction): the raw bytes, typed
\* transaction and signature, as the node receives them
RawTransaction(nonce) == <<"0", "x">> \o BytesHex(<<2, 248, nonce, 171, 205>>)

\* open_position: the log lines of lines 63-64 and the message of
\* sign_and_send
OpenPositionOutputs(private_key) ==
    << [to |-> "log",
        text |-> STR_pk_provided \o SliceTo(private_key, 10) \o STR_dots
                 \o SliceLast(private_key, 4)],
       [to |-> "log", text |-> STR_pk_derived \o DerivedAddress(private_key)],
       [to |-> "node", text |-> RawTransaction(0)] >>

KeyCalls ==
    { [fn |-> "open_position", done |-> FALSE, out |-> NoError,
       args |-> [private_key |-> k]] : k \in PrivateKeys }

\* ---------------------------------------------------------------------------
\* The trader of an openTrade and the account that signs it.
\* AvantisTradingContract(rpc_url, contract_address, private_key): the key
\* gets its 0x prefix, the account and its address are kept; with no key
\* both stay None (<<>>)
AvantisTradingContract(private_key) ==
    IF private_key = <<>> THEN [account |-> <<>>, address |-> <<>>]
    ELSE LET key == IF SliceTo(private_key, 2) = <<"0", "x">> THEN private_key
                    ELSE <<"0", "x">> \o private_key
         IN [account |-> key, address |-> DerivedAddress(key)]

\* TradeParams(trader=trader_address, ..., index=0, initial_pos_token=0,
\* timestamp=0) of open_position_via_contract
TradeParams_fixed(trader_address) ==
    [ trader |-> DerivedAddress(KeyDigits(3)), index |-> 0, initial_pos_token |-> 0,
      timestamp |-> 0 ]

TradeParams(trader_address) ==
    [trader |-> trader_address, index |-> 0, initial_pos_token |-> 0, timestamp |-> 0]

\* build_trade_struct: the fields of ITradingStorage.Trade the caller does
\* not choose
build_trade_struct(params) ==
    [ trader |-> to_checksum_address(params.trader), index |-> params.index,
      initialPosToken |-> params.initial_pos_token, timestamp |-> params.timestamp ]

\* open_position_via_contract up to sign_and_send: the trade struct of the
\* openTrade call and the address the signature of self.account recovers to
OpenTradeSent(private_key) ==
    LET trading == AvantisTradingContract(private_key)
    IN IF trading.address = <<>>
       THEN [error |-> Err("no_address", <<>>), trade |-> <<>>, signer |-> <<>>]
       ELSE [ error |-> NoError,
              trade |-> build_trade_struct(TradeParams(trading.address)),
              signer |-> DerivedAddress(trading.account) ]

\* the calls: the three keys, and no key
SenderCalls ==
    { [fn |-> "openTrade", done |-> FALSE, out |-> NoError,
       args |-> [private_key |-> k]] : k \in PrivateKeys \cup {<<>>} }

SendOpenTrade ==
    /\ call.fn = "openTrade"
    /\ ~call.done
    /\ call' = [call EXCEPT !.done = TRUE, !.out = OpenTradeSent(call.args.private_key)]
    /\ UNCHANGED <<registry, w_vars, chain_vars, engine_vars>>

\* ---------------------------------------------------------------------------
\* The native-currency value of a transaction.  build_transaction writes
\* "value": int(value_wei); each convenience builder chooses value_wei
BuilderValue_fee(builder, execution_fee_wei) ==
    CASE builder = "build_cancel_open_limit_order_tx" -> <<>>
      [] OTHER -> execution_fee_wei

BuilderValue(builder, execution_fee_wei) ==
    CASE builder \in {"build_open_trade_tx", "build_close_trade_market_tx"} -> execution_fee_wei
      [] builder \in {"build_update_tp_sl_tx", "build_update_margin_tx"} -> <<1>>
      [] builder = "build_cancel_open_limit_order_tx" -> <<>>

\* contract_operations.py: the operations that build a trading transaction,
\* the builder each one calls and the contract function it reaches
ViaContract ==
    [ open_position_via_contract |->
        [builder |-> "build_open_trade_tx", entry |-> "openTrade"],
      close_position_via_contract |->
        [builder |-> "build_close_trade_market_tx", entry |-> "closeTradeMarket"],
      close_all_positions_via_contract |->
        [builder |-> "build_close_trade_market_tx", entry |-> "closeTradeMarket"],
      update_tp_sl_via_contract |->
        [builder |-> "build_update_tp_sl_tx", entry |-> "updateTpAndSl"],
      update_margin_via_contract |->
        [builder |-> "build_update_margin_tx", entry |-> "updateMargin"],
      cancel_open_limit_order_via_contract |->
        [builder |-> "build_cancel_open_limit_order_tx", entry |-> "cancelOpenLimitOrder"] ]

\* an Optional[int] argument: None, or the int
NoFee == [is_none |-> TRUE, wei |-> <<>>]

Fee(wei) == [is_none |-> FALSE, wei |-> wei]

\* int(0.0001 * 10 ** 18) and int(0.0003 * 10 ** 18)
DefaultFee(n) == Trunc(FloatMul(FloatLit(n, 4), Pow10(18)))

\* the execution fee an operation hands to its builder: open and close take
\* the caller's and fall back on a default when it is None, close-all has
\* its own, update_tp_sl accepts one and the others have no such parameter
ExecutionFee(fn, execution_fee_wei) ==
    CASE fn = "open_position_via_contract" ->
           IF execution_fee_wei.is_none THEN DefaultFee(1) ELSE execution_fee_wei.wei
      [] fn = "close_position_via_contract" ->
           IF execution_fee_wei.is_none THEN DefaultFee(3) ELSE execution_fee_wei.wei
      [] fn = "close_all_positions_via_contract" -> DefaultFee(3)
      [] OTHER -> execution_fee_wei.wei

\* the transaction an operation builds: its contract function and its value
BuiltValue(fn, execution_fee_wei) ==
    [ entry |-> ViaContract[fn].entry,
      value |-> BuilderValue(ViaContract[fn].builder, ExecutionFee(fn, execution_fee_wei)) ]

\* the calls, one per operation and fee: no fee given, a fee of 0, of 5 wei
\* and of 0.0002 ETH; only open, close and update_tp_sl take the parameter
FeeInputs == { NoFee, Fee(<<>>), Fee(NatToBits(5)), Fee(IntMul(Pow10(14), 2)) }

ValueCalls ==
    { [fn |-> "value_wei", done |-> FALSE, out |-> NoError,
       args |-> [op |-> f, execution_fee_wei |-> fee]] :
        f \in {"open_position_via_contract", "close_position_via_contract",
               "update_tp_sl_via_contract"},
        fee \in FeeInputs }
    \cup
    { [fn |-> "value_wei", done |-> FALSE, out |-> NoError,
       args |-> [op |-> f, execution_fee_wei |-> NoFee]] :
        f \in {"close_all_positions_via_contract", "update_margin_via_contract",
               "cancel_open_limit_order_via_contract"} }

BuildValue ==
    /\ call.fn = "value_wei"
    /\ ~call.done
    /\ call' = [call EXCEPT !.done = TRUE,
                   !.out = BuiltValue(call.args.op, call.args.execution_fee_wei)]
    /\ UNCHANGED <<registry, w_vars, chain_vars, engine_vars>>

InitCalls ==
    /\ w_args = [max |-> max_retries, delay |-> retry_delay, backoff |-> default_backoff]
    /\ w_pc = "returned"
    /\ w_attempt = 0
    /\ w_current_delay = retry_delay
    /\ w_last_error = NoError
    /\ w_result = NoError
    /\ w_calls = 0
    /\ w_func_out = NoError
    /\ w_sleeps = <<>>
    /\ EngineIdle
    /\ call \in FormatReceiptCalls \cup ValidateCalls \cup BuilderCalls
                \cup UnitCalls \cup DecodeCalls \cup KeyCalls \cup ValueCalls
                \cup SenderCalls

FormatReceipt ==
    /\ call.fn = "_format_receipt"
    /\ ~call.done
    /\ \E hx \in HexPrefixes :
         call' = [call EXCEPT !.done = TRUE,
                    !.out = _format_receipt(call.args.receipt, call.args.collateral_amount, hx)]
    /\ UNCHANGED <<registry, w_vars, chain_vars, engine_vars>>

ValidateTradeParams ==
    /\ call.fn = "validate_trade_params"
    /\ ~call.done
    /\ call' = [call EXCEPT !.done = TRUE,
                   !.out = validate_trade_params(call.args.collateral, call.args.leverage,
                                                 call.args.pair_index)]
    /\ UNCHANGED <<registry, w_vars, chain_vars, engine_vars>>

BuildTx ==
    /\ call.fn \in Builders
    /\ ~call.done
    /\ call' = [call EXCEPT !.done = TRUE,
                   !.out = build_transaction(BuilderGas(call.fn, call.args.gas),
                              call.args.max_fee_per_gas, call.args.max_priority_fee_per_gas,
                              call.args.gas_price, call.args.estimate_ok)]
    /\ UNCHANGED <<registry, w_vars, chain_vars, engine_vars>>

ConvertUnits ==
    /\ call.fn \in UnitPaths
    /\ ~call.done
    /\ call' = [call EXCEPT !.done = TRUE, !.out = OnChainUnits(call.fn, call.args)]
    /\ UNCHANGED <<registry, w_vars, chain_vars, engine_vars>>

DecodeTrade ==
    /\ call.fn = "_decode_trade_struct"
    /\ ~call.done
    /\ call' = [call EXCEPT !.done = TRUE, !.out = DecodeTradeFields(call.args.raw)]
    /\ UNCHANGED <<registry, w_vars, chain_vars, engine_vars>>

OpenPositionKey ==
    /\ call.fn = "open_position"
    /\ ~call.done
    /\ call' = [call EXCEPT !.done = TRUE, !.out = OpenPositionOutputs(call.args.private_key)]
    /\ UNCHANGED <<registry, w_vars, chain_vars, engine_vars>>

NextCalls ==
    \/ FormatReceipt
    \/ ValidateTradeParams
    \/ BuildTx
    \/ ConvertUnits
    \/ DecodeTrade
    \/ OpenPositionKey
    \/ BuildValue
    \/ SendOpenTrade

SpecCalls == InitCalls /\ [][NextCalls]_vars


(***************************************************************************)
(* The operations on one slot: close_position, update_tp_sl, update_margin *)
(* and cancel_limit_order, next to open_position.                          *)
(***************************************************************************)
\* the arguments of the requests made: the slots of the last pair, levels
\* absent, whole and with two decimals, a deposit and a withdrawal of 5 USDC
SlotPair == MaxPairs - 1

TpSlInputs ==
    { <<NoneLit, NoneLit>>, <<Lit(3, 0), NoneLit>>, <<NoneLit, Lit(2, 0)>>,
      <<Lit(41, 2), Lit(2, 0)>> }

StartSlotOp(r, op, trade_index, levels, update_type, amount_usdc) ==
    /\ req[r].pc = "idle"
    /\ \A q \in Procs : q < r => req[q].pc # "idle"
    /\ running = 0
    /\ req' = [req EXCEPT ![r] =
                 [@ EXCEPT !.op = op, !.pc = op, !.pair_index = SlotPair,
                           !.trade_index = trade_index, !.new_tp = levels[1],
                           !.new_sl = levels[2], !.update_type = update_type,
                           !.collateral = amount_usdc,
                           !.after = {q \in Procs : req[q].pc = "done"}]]
    /\ running' = r
    /\ UNCHANGED <<registry, call, w_vars, chain_vars, faults>>

\* close_position(pair_index, private_key): the trade index is not an argument
StartClosePosition(r) ==
    StartSlotOp(r, "close_position", 0, <<NoneLit, NoneLit>>, 0, 0)

StartUpdateTpSl(r) ==
    \E i \in SlotIdx, levels \in TpSlInputs :
        StartSlotOp(r, "update_tp_sl", i, levels, 0, 0)

StartUpdateMargin(r) ==
    \E update_type \in {0, 1} :
        StartSlotOp(r, "update_margin", 0, <<NoneLit, NoneLit>>, update_type, 5)

StartCancelLimitOrder(r) ==
    StartSlotOp(r, "cancel_limit_order", 0, <<NoneLit, NoneLit>>, 0, 0)

StartOpenSlot(r) == Start(r, "open_position", SYM_eth, 50, 10)

\* close_position -> close_position_via_contract(pair_index, trade_index=0)
\* and update_margin -> update_margin_via_contract, up to the awaited read:
\* Account.from_key and _get_trading_storage_contract (Web3.is_connected)
SlotOpStart(r) ==
    /\ req[r].pc \in {"close_position", "update_margin"}
    /\ CanRun(r)
    /\ \E connected \in BOOLEAN :
        /\ Fault(~connected)
        /\ req' = [req EXCEPT ![r] =
                  IF ~connected
                  THEN Raised([@ EXCEPT !.did_rpc = TRUE], Err("provider_not_reachable", <<>>))
                  ELSE [@ EXCEPT !.did_rpc = TRUE, !.pair = req[r].pair_index,
                                 !.idx = req[r].trade_index, !.pc = "slot_read"]]
    /\ running' = 0
    /\ UNCHANGED <<registry, call, w_vars, chain_vars>>

\* the transaction each operation builds for the trade it read
CloseTx(r, trade) ==
    Tx("closeTradeMarket", r, BuildNonce, req[r].pair, req[r].idx, trade.size, 0, 0)

MarginTx(r) ==
    [ Tx("updateMargin", r, BuildNonce, req[r].pair, req[r].idx, req[r].collateral, 0, 0)
        EXCEPT !.update_type = req[r].update_type ]

\* update_tp_sl_via_contract: new_tp_int and new_sl_int for the trade read:
\* int(trade[8]) and int(trade[9]) for a level that is None, else
\* int(new * (10 ** PRICE_DECIMALS))
\* (variant: 0 for a level that is None)
NewLevel_zero(new, current) ==
    IF new.n = None THEN <<>> ELSE ToChain(Float(new), PRICE_DECIMALS)
NewLevel(new, current) ==
    IF new.n = None THEN current ELSE ToChain(Float(new), PRICE_DECIMALS)

TpSlTx(r, trade) ==
    [ Tx("updateTpAndSl", r, BuildNonce, req[r].pair_index, req[r].trade_index, 0, 0, 0)
        EXCEPT !.tp = NewLevel(req[r].new_tp, trade.tp),
               !.sl = NewLevel(req[r].new_sl, trade.sl) ]

CancelTx(r) ==
    Tx("cancelOpenLimitOrder", r, BuildNonce, req[r].pair_index, req[r].trade_index, 0, 0, 0)

\* trade_raw = await asyncio.to_thread(_read_trade); _decode_trade_struct;
\* `if not trade: raise ValueError("No open trade found ...")`; then
\* AvantisTradingContract(...), the builder and sign_and_send.
\* build_close_trade_market_tx estimates the gas, build_update_margin_tx
\* does not
SlotReadAndSend(r) ==
    /\ req[r].pc = "slot_read"
    /\ CanRun(r)
    /\ \E out \in {"sent", "read_failed", "not_reachable", "io_error", "estimate_failed"} :
        LET rq == req[r]
            trade == _decode_trade_struct(slots[rq.pair][rq.idx])
            sends == out = "sent" /\ trade # EmptyDict
        IN /\ sends => Len(txs) < MaxTxs
           /\ (trade = EmptyDict) => out \in {"sent", "read_failed"}
           /\ out = "estimate_failed" => rq.op = "close_position"
           /\ Fault(out # "sent")
           /\ txs' = IF sends
                     THEN Append(txs, IF rq.op = "close_position" THEN CloseTx(r, trade)
                                      ELSE MarginTx(r))
                     ELSE txs
           /\ req' = [req EXCEPT ![r] =
                     CASE out = "read_failed" -> Raised(rq, Err("rpc_io_error", <<>>))
                       [] out = "sent" /\ trade = EmptyDict ->
                            Raised(rq, Err("no_open_trade", <<rq.pair, rq.idx>>))
                       [] out = "sent" /\ trade # EmptyDict ->
                            [rq EXCEPT !.pc = "slot_wait", !.tx = Len(txs) + 1]
                       [] out = "not_reachable" ->
                            Raised(rq, Err("provider_not_reachable", <<>>))
                       [] out = "io_error" -> Raised(rq, Err("rpc_io_error", <<>>))
                       [] out = "estimate_failed" ->
                            Raised(rq, Err("contract_logic_error", <<>>))]
    /\ running' = 0
    /\ UNCHANGED <<registry, call, w_vars, allowance, slots, balance>>

\* update_tp_sl and update_tp_sl_via_contract up to the receipt wait: the
\* test of the two levels, AvantisTradingContract(...), the read of the slot
\* (a blocking call), the test of the trader, build_update_tp_sl_tx and
\* sign_and_send
UpdateTpSl(r) ==
    /\ req[r].pc = "update_tp_sl"
    /\ CanRun(r)
    /\ \E out \in {"sent", "not_reachable", "read_failed", "io_error"} :
        LET rq == req[r]
            none == rq.new_tp.n = None /\ rq.new_sl.n = None
            trade == slots[rq.pair_index][rq.trade_index]
            empty == trade.trader = ZeroAddress
            sends == out = "sent" /\ ~none /\ ~empty
        IN /\ sends => Len(txs) < MaxTxs
           /\ none => out = "sent"
           /\ (empty /\ ~none) => out \in {"sent", "not_reachable", "read_failed"}
           /\ Fault(out # "sent")
           /\ txs' = IF sends THEN Append(txs, TpSlTx(r, trade)) ELSE txs
           /\ req' = [req EXCEPT ![r] =
                     CASE none -> Raised(rq, Err("no_levels", <<>>))
                       [] out = "not_reachable" ->
                            Raised([rq EXCEPT !.did_rpc = TRUE],
                                   Err("provider_not_reachable", <<>>))
                       [] out \in {"read_failed", "io_error"} ->
                            Raised([rq EXCEPT !.did_rpc = TRUE], Err("rpc_io_error", <<>>))
                       [] empty ->
                            Raised([rq EXCEPT !.did_rpc = TRUE],
                                   Err("no_open_trade", <<rq.pair_index, rq.trade_index>>))
                       [] OTHER ->
                            [rq EXCEPT !.did_rpc = TRUE, !.pc = "slot_wait",
                                       !.tx = Len(txs) + 1]]
    /\ running' = 0
    /\ UNCHANGED <<registry, call, w_vars, allowance, slots, balance>>

\* cancel_limit_order and cancel_open_limit_order_via_contract up to the
\* receipt wait: no read of the slot
CancelLimitOrder(r) ==
    /\ req[r].pc = "cancel_limit_order"
    /\ CanRun(r)
    /\ \E out \in {"sent", "not_reachable", "io_error"} :
        /\ out = "sent" => Len(txs) < MaxTxs
        /\ Fault(out # "sent")
        /\ txs' = IF out = "sent" THEN Append(txs, CancelTx(r)) ELSE txs
        /\ req' = [req EXCEPT ![r] =
                  CASE out = "sent" ->
                         [@ EXCEPT !.did_rpc = TRUE, !.pc = "slot_wait", !.tx = Len(txs) + 1]
                    [] out = "not_reachable" ->
                         Raised([@ EXCEPT !.did_rpc = TRUE], Err("provider_not_reachable", <<>>))
                    [] out = "io_error" ->
                         Raised([@ EXCEPT !.did_rpc = TRUE], Err("rpc_io_error", <<>>))]
    /\ running' = 0
    /\ UNCHANGED <<registry, call, w_vars, allowance, slots, balance>>

\* wait_for_transaction_receipt returned: _format_receipt(receipt,
\* pair_index=..., action=...) (no collateral amount) and the return of the
\* operation ({"success": True, ...})
SlotReceipt(r) ==
    /\ req[r].pc = "slot_wait"
    /\ CanRun(r)
    /\ txs[req[r].tx].status \in {"ok", "reverted"}
    /\ \E hx \in HexPrefixes :
        LET f == _format_receipt(Receipt(txs[req[r].tx]), None, hx)
        IN req' = [req EXCEPT ![r] =
                     IF IsError(f) THEN Raised(@, f)
                     ELSE Leave(@, "done", "success")]
    /\ running' = 0
    /\ UNCHANGED <<registry, call, w_vars, chain_vars, faults>>

\* wait_for_transaction_receipt lost the connection to the node
SlotWaitFails(r) ==
    /\ req[r].pc = "slot_wait"
    /\ CanRun(r)
    /\ Fault(TRUE)
    /\ req' = [req EXCEPT ![r] = Raised(@, Err("rpc_io_error", <<>>))]
    /\ running' = 0
    /\ UNCHANGED <<registry, call, w_vars, chain_vars>>

\* the wallet holds no trade, or one in slot 0 of the pair, when the service
\* starts; the allowance covers one trade
InitOccupiedSlot == { {}, {<<SlotPair, 0>>} }

InitSlot ==
    /\ w_args = [max |-> max_retries, delay |-> retry_delay, backoff |-> default_backoff]
    /\ w_pc = "returned"
    /\ w_attempt = 0
    /\ w_current_delay = retry_delay
    /\ w_last_error = NoError
    /\ w_result = NoError
    /\ w_calls = 0
    /\ w_func_out = NoError
    /\ w_sleeps = <<>>
    /\ allowance = 50
    /\ \E occ \in InitOccupiedSlot :
         slots = [p \in Pairs |-> [i \in SlotIdx |->
                    IF <<p, i>> \in occ THEN InitTrade(p, i) ELSE ZeroTrade]]
    /\ txs = <<>>
    /\ balance = InitBalance
    /\ running = 0
    /\ req = [r \in Procs |-> IdleReq]
    /\ faults = 0
    /\ call = NoCall
    /\ registry = InitRegistry

NextSlotOps ==
    \/ Mine
    \/ \E r \in Procs :
        \/ StartOpenSlot(r)
        \/ StartClosePosition(r)
        \/ StartUpdateTpSl(r)
        \/ StartUpdateMargin(r)
        \/ StartCancelLimitOrder(r)
        \/ RetryWake(r)
        \/ OpenStart(r)
        \/ GetAllowance(r)
        \/ InnerWake(r)
        \/ ApproveUSDC(r)
        \/ Validate(r)
        \/ BuildAndSendOpen(r)
        \/ OpenReceipt(r)
        \/ WaitFails(r)
        \/ SlotOpStart(r)
        \/ SlotReadAndSend(r)
        \/ UpdateTpSl(r)
        \/ CancelLimitOrder(r)
        \/ SlotReceipt(r)
        \/ SlotWaitFails(r)

SpecSlot == InitSlot /\ [][NextSlotOps]_vars


(***************************************************************************)
(* Properties                                                              *)
(***************************************************************************)
(* The symbol registry as shared state: update_pair_index and              *)
(* refresh_pair_index_map_from_sdk write the two module-level dicts every   *)
(* request reads through get_pair_index and get_symbol.                     *)
(***************************************************************************)
\* update_pair_index: SYMBOL_TO_PAIR_INDEX[normalized_symbol] = pair_index;
\* PAIR_INDEX_TO_SYMBOL[pair_index] = normalized_symbol
update_pair_index(symbol, pair_index) ==
    LET normalized_symbol == _normalize_symbol(symbol)
    IN [ SYMBOL_TO_PAIR_INDEX |->
           {e \in registry.SYMBOL_TO_PAIR_INDEX : e[1] # normalized_symbol}
             \cup {<<normalized_symbol, pair_index>>},
         PAIR_INDEX_TO_SYMBOL |->
           {e \in registry.PAIR_INDEX_TO_SYMBOL : e[2] # pair_index}
             \cup {<<normalized_symbol, pair_index>>} ]

\* one element of the list default_pair_fetcher returns, as the loop of
\* refresh_pair_index_map_from_sdk reads it: the symbol found under "from" (or
\* feed.attributes.symbol), <<>> when there is none, and the index found under
\* "index", "pair_index" or "id", None when there is none
SdkPair(symbol, idx) == [from |-> symbol, index |-> idx]

\* the pairs of the static map, as the SDK lists them (symbols in lower case)
StaticPairs ==
    [ k \in 1..Cardinality(SYMBOL_TO_PAIR_INDEX) |->
        SdkPair(Lower((CHOOSE e \in SYMBOL_TO_PAIR_INDEX : e[2] = k - 1)[1]), k - 1) ]

\* what the SDK may answer: client is FALSE when FeedClient is missing or
\* cannot be built, fetched is FALSE when default_pair_fetcher is missing or
\* raises.  While requests run: no client, or the pairs of the static map
SdkPairs ==
    { [client |-> FALSE, fetched |-> FALSE, pairs |-> <<>>],
      [client |-> TRUE, fetched |-> TRUE, pairs |-> StaticPairs] }

\* the registry functions called on their own: also a fetch that raises, an
\* empty list, an element without symbol and one without index
\* ({"pair": str(p)}), two symbols under one index, one symbol under two
\* indices
SdkAnswers ==
    SdkPairs \cup
    { [client |-> TRUE, fetched |-> FALSE, pairs |-> <<>>],
      [client |-> TRUE, fetched |-> TRUE, pairs |-> <<>>],
      [client |-> TRUE, fetched |-> TRUE,
       pairs |-> << SdkPair(<<>>, 0), SdkPair(SYM_eth, None) >>],
      [client |-> TRUE, fetched |-> TRUE,
       pairs |-> << SdkPair(SYM_BTC, 0), SdkPair(SYM_eth, 0) >>],
      [client |-> TRUE, fetched |-> TRUE,
       pairs |-> << SdkPair(SYM_BTC, 0), SdkPair(SYM_BTC, 1) >>] }

\* d[key] = value on both dicts
SetPair(reg, symbol_str, pair_index_int) ==
    [ SYMBOL_TO_PAIR_INDEX |->
        {e \in reg.SYMBOL_TO_PAIR_INDEX : e[1] # symbol_str}
          \cup {<<symbol_str, pair_index_int>>},
      PAIR_INDEX_TO_SYMBOL |->
        {e \in reg.PAIR_INDEX_TO_SYMBOL : e[2] # pair_index_int}
          \cup {<<symbol_str, pair_index_int>>} ]

\* the loop `for pair in pairs`: an element without symbol or without index
\* is skipped
RECURSIVE RebuildFrom(_, _)
RebuildFrom(reg, pairs) ==
    IF pairs = <<>> THEN reg
    ELSE LET pair == Head(pairs)
         IN RebuildFrom(IF pair.from = <<>> \/ pair.index = None THEN reg
                        ELSE SetPair(reg, _normalize_symbol(pair.from), pair.index),
                        Tail(pairs))

\* refresh_pair_index_map_from_sdk: without client, without answer or with an
\* empty list the maps are kept; else both are cleared and rebuilt
refresh_pair_index_map_from_sdk(sdk) ==
    IF ~sdk.client \/ ~sdk.fetched \/ sdk.pairs = <<>> THEN registry
    ELSE RebuildFrom([SYMBOL_TO_PAIR_INDEX |-> {}, PAIR_INDEX_TO_SYMBOL |-> {}], sdk.pairs)

\* the two functions are called while no request holds the event loop
UpdatePairIndex ==
    /\ running = 0
    /\ \E pair_index \in Pairs : registry' = update_pair_index(SYM_BTC, pair_index)
    /\ UNCHANGED <<w_vars, chain_vars, engine_vars, call>>

RefreshPairIndexMap ==
    /\ running = 0
    /\ \E sdk \in SdkPairs : registry' = refresh_pair_index_map_from_sdk(sdk)
    /\ UNCHANGED <<w_vars, chain_vars, engine_vars, call>>

NextRegistry ==
    \/ Next
    \/ UpdatePairIndex
    \/ RefreshPairIndexMap

SpecRegistry == Init /\ [][NextRegistry]_vars

\* The two functions called on their own, in any order: `call` keeps the
\* latest call, its arguments and the registry it found (history).
SYM_sol == <<"s","o","l">>

InitSymbols ==
    /\ w_args = [max |-> max_retries, delay |-> retry_delay, backoff |-> default_backoff]
    /\ w_pc = "returned"
    /\ w_attempt = 0
    /\ w_current_delay = retry_delay
    /\ w_last_error = NoError
    /\ w_result = NoError
    /\ w_calls = 0
    /\ w_func_out = NoError
    /\ w_sleeps = <<>>
    /\ EngineIdle
    /\ call = NoCall

UpdatePairIndexCall ==
    /\ \E symbol \in {SYM_BTC, SYM_eth, SYM_sol}, pair_index \in 0..MaxPairs :
         /\ registry' = update_pair_index(symbol, pair_index)
         /\ call' = [ fn |-> "update_pair_index", done |-> TRUE, out |-> NoError,
                      args |-> [ symbol |-> symbol, pair_index |-> pair_index,
                                 before |-> registry ] ]
    /\ UNCHANGED <<w_vars, chain_vars, engine_vars>>

RefreshPairIndexMapCall ==
    /\ \E sdk \in SdkAnswers :
         /\ registry' = refresh_pair_index_map_from_sdk(sdk)
         /\ call' = [ fn |-> "refresh_pair_index_map_from_sdk", done |-> TRUE,
                      out |-> NoError, args |-> [sdk |-> sdk, before |-> registry] ]
    /\ UNCHANGED <<w_vars, chain_vars, engine_vars>>

NextSymbols ==
    \/ UpdatePairIndexCall
    \/ RefreshPairIndexMapCall

SpecSymbols == InitSymbols /\ [][NextSymbols]_vars


(***************************************************************************)

\* C1: an open_position request whose collateral is below the minimum (10
\* USDC) or whose leverage is outside 2..50 is rejected before any network
\* interaction: no node call is made for it and no approval or trade
\* transaction is sent for it.
C1_RejectedBeforeNetwork ==
    \A r \in Procs :
        ( /\ req[r].op = "open_position"
          /\ validate_trade_params(req[r].collateral, req[r].leverage, 0) # NoError )
        => /\ ~req[r].did_rpc
           /\ \A k \in 1..Len(txs) : txs[k].req # r

\* C2: open_position rejects a request whose collateral x leverage is below
\* pairMinLevPosUSDC of its pair before any approval or openTrade transaction
\* is sent: every transaction of an open_position request belongs to a request
\* whose notional reaches the minimum of its pair.
C2_MinNotionalBeforeSend ==
    \A k \in 1..Len(txs) :
        LET rq == req[txs[k].req]
        IN rq.op = "open_position"
           => rq.collateral * rq.leverage >= pairMinLevPosUSDC(get_pair_index(rq.symbol))

\* C3: an operation returns success only if every transaction it broadcast
\* was mined with receipt status 1.
C3_SuccessOnlyIfAllMined ==
    \A r \in Procs :
        req[r].result = "success"
        => \A k \in 1..Len(txs) : txs[k].req = r => txs[k].status = "ok"

\* C4: close_all_positions, run alone against a node that answers every call,
\* has broadcast when it returns exactly one closeTradeMarket for each slot
\* that held a trade and none for an empty slot.
C4_OneClosePerOccupiedSlot ==
    \A r \in Procs :
        ( /\ req[r].op = "close_all_positions"
          /\ req[r].pc = "done"
          /\ faults = 0
          /\ \A q \in Procs \ {r} : req[q].pc = "idle" )
        => \A p \in Pairs, i \in SlotIdx :
             LET closes == {k \in 1..Len(txs) : /\ txs[k].kind = "closeTradeMarket"
                                                /\ txs[k].pair = p
                                                /\ txs[k].idx = i}
                 held == \/ slots[p][i].trader # ZeroAddress
                         \/ \E k \in closes : txs[k].status = "ok"
             IN Cardinality(closes) = IF held THEN 1 ELSE 0

\* C5 (as stated): open_position sends an approval transaction only when the
\* allowance the wallet currently grants is below the collateral of the request.
C5_NoApprovalWhenAllowanceCovers ==
    [][ \A k \in (Len(txs) + 1)..Len(txs') :
            txs'[k].kind = "approve" => allowance < req[txs'[k].req].collateral ]_vars

\* C5 (amended): the allowance step takes the allowance the query returned,
\* or 0 when the query failed, and open_position sends an approval
\* transaction only when that value is below the collateral: a request whose
\* query returned at least the collateral sends no approval in that attempt.
C5_ApprovalOnlyWhenReadBelow ==
    /\ [][ /\ \A k \in (Len(txs) + 1)..Len(txs') :
                txs'[k].kind = "approve"
                => req[txs'[k].req].allow_read < req[txs'[k].req].collateral
           /\ \A r \in Procs :
                (req[r].pc = "allowance" /\ req'[r].pc \in {"approve", "validate"})
                => req'[r].allow_read \in {allowance, 0} ]_vars
    /\ [](\A r \in Procs :
            ( /\ req[r].op = "open_position"
              /\ req[r].pc \in {"validate", "price", "wait"}
              /\ req[r].allow_read >= req[r].collateral )
            => \A k \in 1..Len(txs) :
                 ~(txs[k].kind = "approve" /\ txs[k].req = r /\ txs[k].attempt = req[r].attempt))

\* C5 witness: an open_position whose allowance query returned at least the
\* collateral has sent its openTrade and no approval
C5_Witness ==
    \E r \in Procs :
        /\ req[r].op = "open_position"
        /\ req[r].pc = "wait"
        /\ req[r].allow_read >= req[r].collateral
        /\ req[r].collateral > 0
        /\ \A k \in 1..Len(txs) : txs[k].req = r => txs[k].kind = "openTrade"

\* C6: the openTrade transaction of a request is sent only once every
\* approval transaction the request sent is confirmed (mined with status 1).
C6_ApprovalConfirmedBeforeOpen ==
    \A k \in 1..Len(txs) :
        txs[k].kind = "openTrade"
        => \A j \in 1..Len(txs) :
             (txs[j].kind = "approve" /\ txs[j].req = txs[k].req)
             => txs[j].status = "ok"

\* C7: after a validation error or an on-chain rejection the decorator never
\* schedules another attempt of the operation, whatever the type and the
\* message of the error.
C7_NoRetryOfValidationOrOnChain ==
    \A r \in Procs :
        ErrKind(req[r].last_error) \in {"validation", "onchain"}
        => req[r].pc # "retry_sleep"

\* C8: the decorator invokes the function at most max_retries + 1 times and
\* terminates; the k-th retry follows a sleep of delay * backoff^(k-1); a
\* successful attempt returns its result with no further attempt; when every
\* attempt fails with a network error the last error is raised.
C8_BoundedRetry ==
    /\ [](/\ w_calls <= w_args.max + 1
          /\ \A k \in 1..Len(w_sleeps) :
                w_sleeps[k] = w_args.delay * Pow(w_args.backoff, k - 1)
          /\ w_pc = "call" => w_calls = Len(w_sleeps)
          /\ w_pc # "call" => w_calls = Len(w_sleeps) + 1
          /\ w_pc = "returned" => (w_result \in FuncValues /\ w_result = w_func_out)
          /\ w_pc = "raised" => (w_result = w_func_out /\ w_result = w_last_error)
          /\ (w_pc = "raised" /\ is_network_error(w_result)) => w_calls = w_args.max + 1)
    /\ [][(w_pc = "call" \/ w_pc = "sleep")]_vars
    /\ <>(w_pc \in {"returned", "raised"})

\* C8 witness: with the service's settings every attempt failed with a
\* network error: four invocations, sleeps of 1, 2 and 4 seconds
C8_Witness ==
    /\ w_pc = "raised"
    /\ w_args = [max |-> max_retries, delay |-> retry_delay, backoff |-> default_backoff]
    /\ w_calls = max_retries + 1
    /\ w_sleeps = <<1, 2, 4>>
    /\ is_network_error(w_result)

\* C9: every transaction carries as nonce the number of transactions of the
\* sender the node held, pending ones included, when it was built, and no two
\* transactions the service broadcast carry the same nonce.
C9_NonceUnique ==
    \A k \in 1..Len(txs) :
        /\ txs[k].nonce = Cardinality({j \in 1..(k - 1) : txs[j].status # "dropped"})
        /\ \A j \in 1..Len(txs) : j # k => txs[j].nonce # txs[k].nonce

\* C9 witness: two requests in flight have each a transaction pending, and
\* one request has its approval and its openTrade pending together
C9_Witness ==
    /\ \E j, k \in 1..Len(txs) :
        /\ txs[j].req # txs[k].req
        /\ txs[j].status = "pending"
        /\ txs[k].status = "pending"
    /\ \E j, k \in 1..Len(txs) :
        /\ txs[j].req = txs[k].req
        /\ txs[j].kind = "approve"
        /\ txs[k].kind = "openTrade"
        /\ txs[j].status = "pending"

DirectListing(r) == req[r].op \in ListOps

\* the number of records of request r for slot <<p, i>>
Listed(r, p, i) ==
    Cardinality({k \in 1..Len(req[r].results) :
                    /\ req[r].results[k].pair_index = p
                    /\ req[r].results[k].index = i})

\* C11: a direct listing that returned after no read failed holds exactly one
\* record for every slot that holds a trade, and none for an empty slot.
C11_OneRecordPerOccupiedSlot ==
    \A r \in Procs :
        ( /\ DirectListing(r)
          /\ req[r].pc = "done"
          /\ req[r].result = "success"
          /\ faults = 0
          /\ req[r].occ0 = Occupied )
        => \A p \in Pairs, i \in SlotIdx :
              Listed(r, p, i) = IF <<p, i>> \in Occupied THEN 1 ELSE 0

\* C12: no direct listing is aborted by one failing read: none ends with the
\* error of a read.
C12_ReadFailureNeverAborts ==
    \A r \in Procs :
        DirectListing(r) =>
            ~ ( /\ req[r].pc = "done"
                /\ req[r].result = "error"
                /\ req[r].last_error.id = "rpc_io_error" )

C14_OrderedByPairThenSlot ==
    \A r \in Procs :
        (req[r].pc = "done" /\ req[r].result = "success")
        => \A j, k \in 1..Len(req[r].results) :
              j < k =>
                 LET a == req[r].results[j]
                     b == req[r].results[k]
                 IN \/ a.pair_index < b.pair_index
                    \/ a.pair_index = b.pair_index /\ a.index < b.index

\* the bytes a hexadecimal text stands for, with or without the 0x in front
RECURSIVE HexDecode(_)
HexDecode(str) ==
    IF Len(str) >= 2 /\ str[1] = "0" /\ str[2] = "x" THEN HexDecode(SubSeq(str, 3, Len(str)))
    ELSE IF Len(str) < 2 THEN <<>>
    ELSE <<HexVal(str[1]) * 16 + HexVal(str[2])>> \o HexDecode(SubSeq(str, 3, Len(str)))

\* C15: for a receipt of status 1 that has a transaction hash, _format_receipt
\* returns a confirmed result whose tx_hash is that hash (the text of a text
\* hash, the hexadecimal text of exactly its bytes otherwise); for a receipt
\* of status 0 that prints BELOW_MIN_POS, or its hex encoding in either case,
\* it raises the position-below-minimum error and not the generic one.
C15_ReceiptInterpreted ==
    (call.fn = "_format_receipt" /\ call.done) =>
        LET rc == call.args.receipt
            h == rc.transactionHash
        IN /\ ( /\ rc.status = <<"int", <<"1">> >>
                /\ h.t # "None"
                /\ h.t = "str" => h.s # <<>> )
              => /\ ~IsError(call.out)
                 /\ call.out.status = "confirmed"
                 /\ IF h.t = "str" THEN call.out.tx_hash = h.s
                    ELSE HexDecode(call.out.tx_hash) = h.b
           /\ (rc.status = <<"int", <<"0">> >> /\ call.args.sig \in {"text", "hex", "HEX"})
              => /\ IsError(call.out)
                 /\ call.out.id = "below_min_pos"

\* C15 witness: a receipt of status 0 whose revert data holds the hex encoding
\* of the signature in upper case was reported as below the minimum position
C15_Witness ==
    /\ call.fn = "_format_receipt"
    /\ call.done
    /\ call.args.receipt.status = <<"int", <<"0">> >>
    /\ call.args.sig = "HEX"
    /\ IsError(call.out)
    /\ call.out.id = "below_min_pos"

\* the word every message about funds has to hold
STR_funds == <<"f","u","n","d","s">>

\* C16: the error _format_receipt raises for a reverted transaction holds the
\* hash of the transaction and speaks of funds; the error validate_trade_params
\* raises speaks of funds (that none moved).
C16_MessagesSpeakOfFunds ==
    (call.done /\ IsError(call.out)) =>
        /\ Contains(Lower(ErrMsg(call.out)), STR_funds)
        /\ (call.fn = "_format_receipt" /\ call.args.receipt.transactionHash.t # "None") =>
              LET h == call.args.receipt.transactionHash
              IN Contains(ErrMsg(call.out), IF h.t = "str" THEN h.s ELSE BytesHex(h.b))

\* C17: validate_trade_params accepts exactly the triples with collateral
\* >= 10, leverage in 2..50 and a pair index >= 0 that names a known symbol.
C17_AcceptsIffAllConditions ==
    (call.fn = "validate_trade_params" /\ call.done) =>
        ( call.out = NoError
          <=> /\ call.args.collateral >= MIN_COLLATERAL_USDC
              /\ call.args.leverage >= 2
              /\ call.args.leverage <= 50
              /\ call.args.pair_index >= 0
              /\ get_symbol(call.args.pair_index) # <<>> )

\* C18: no approval or trade transaction is sent for an open_position request
\* whose collateral exceeds the USDC balance of the wallet.
C18_NoTxWhenBalanceShort ==
    [][ \A r \in Procs :
          (req[r].op = "open_position" /\ req[r].collateral > balance)
          => \A k \in 1..Len(txs') : k > Len(txs) => txs'[k].req # r ]_vars

\* C19: every transaction sent to the collateral token contract calls
\* approve with the trading contract as spender; none calls transfer or
\* transferFrom.
C19_OnlyApproveOnToken ==
    \A k \in 1..Len(txs) :
        /\ txs[k].kind \notin {"transfer", "transferFrom"}
        /\ txs[k].to = usdc_token_address =>
              /\ txs[k].kind = "approve"
              /\ txs[k].spender = avantis_trading_contract_address

\* C19 witness: an approval sent for an open_position request was mined and
\* the trade of the same request was sent after it
C19_Witness ==
    \E j, k \in 1..Len(txs) :
        /\ j < k
        /\ txs[j].to = usdc_token_address
        /\ txs[j].status = "ok"
        /\ txs[k].req = txs[j].req
        /\ txs[k].to = avantis_trading_contract_address

\* C20: an approval transaction grants more than the collateral of the
\* request it is sent for.
C20_ApprovalAboveRequired ==
    \A k \in 1..Len(txs) :
        txs[k].kind = "approve" => txs[k].amount > req[txs[k].req].collateral

\* C21: a transaction built without fees from the caller has a fee cap
\* strictly above the gas price observed, whatever that price (>= 1).
C21_FeeCapAboveGasPrice ==
    ( /\ call.fn \in Builders
      /\ call.done
      /\ call.args.max_fee_per_gas = None
      /\ call.args.max_priority_fee_per_gas = None
      /\ ~IsError(call.out) )
    => call.out.maxFeePerGas > call.args.gas_price

\* C22: a builder called without a gas limit builds its transaction also
\* when gas estimation fails.
C22_BuildsWithoutEstimation ==
    (call.fn \in Builders /\ call.done /\ call.args.gas = None)
    => (~IsError(call.out) /\ call.out.gas # EstimatedGas)

\* C23: every path that turns human values into on-chain integers uses 10^6
\* for the collateral and 10^10 for take-profit, stop-loss and slippage (the
\* integer is the scaled value, or one unit off where a float is cut), and any
\* two paths make the same integers of the same arguments.
WithinOne(b, exact) == b \in {exact, Inc(exact), Dec(exact)}

ScaledLit(l, k) == IF l.n = None THEN <<>> ELSE DecimalScaled(l.n, l.p, k)

C23_SameScalesOnEveryPath ==
    (call.fn \in UnitPaths /\ call.done)
    => /\ WithinOne(call.out.collateral, ScaledLit(call.args.collateral, 6))
       /\ "tp" \in DOMAIN call.out
            => /\ WithinOne(call.out.tp, ScaledLit(call.args.take_profit, 10))
               /\ WithinOne(call.out.sl, ScaledLit(call.args.stop_loss, 10))
       /\ "slippage" \in DOMAIN call.out
            => call.out.slippage = ScaledLit(SLIPPAGE_DEFAULT, 10)
       /\ \A g \in UnitPaths :
            LET other == OnChainUnits(g, call.args)
            IN \A f \in (DOMAIN other \cap DOMAIN call.out) \ {"leverage"} :
                 other[f] = call.out[f]

\* C24: an on-chain integer turned into human units and back is the same
\* integer, at 6 and at 10 decimals; a human decimal turned into chain units
\* is within one unit of its scaled value (the float made of that integer
\* being the double nearest to it).
C24_FixedPointRoundTrip ==
    /\ (call.fn = "_decode_trade_struct" /\ call.done)
       => /\ ToChain(call.out.position_size_usdc, USDC_DECIMALS)
               = call.args.raw.positionSizeUSDC
          /\ ToChain(call.out.open_price, PRICE_DECIMALS) = call.args.raw.openPrice
    /\ (call.fn = "open_position_via_contract" /\ call.done)
       => /\ WithinOne(call.out.collateral, ScaledLit(call.args.collateral, USDC_DECIMALS))
          /\ WithinOne(call.out.tp, ScaledLit(call.args.take_profit, PRICE_DECIMALS))
          /\ WithinOne(call.out.sl, ScaledLit(call.args.stop_loss, PRICE_DECIMALS))

\* C25: a trade opened with leverage L is read back with leverage L.
C25_LeverageReadAsOpened ==
    (call.fn = "_decode_trade_struct" /\ call.done /\ call.args.opened.leverage # None)
    => call.out.leverage = NatToBits(call.args.opened.leverage)

\* C26: a trade opened with collateral C is listed with collateral C, and the
\* margin_used of a wallet holding that one trade is C.
C26_CollateralListedAsOpened ==
    (call.fn = "_decode_trade_struct" /\ call.done /\ call.args.opened.leverage # None)
    => /\ PositionCollateral(call.out) = Float(call.args.opened.collateral)
       /\ margin_used(<<PositionCollateral(call.out)>>) = Float(call.args.opened.collateral)

\* C27: no operation writes process-wide state: the registry stays what the
\* module was loaded with, and the pair an open request trades is the one its
\* symbol has in the static map.
StaticIndex(symbol) ==
    (CHOOSE e \in SYMBOL_TO_PAIR_INDEX : e[1] = _normalize_symbol(symbol))[2]

SecretDigits(private_key) ==
    IF SliceTo(private_key, 2) = <<"0", "x">>
    THEN SubSeq(private_key, 3, Len(private_key)) ELSE private_key

Leaks(text, private_key) ==
    LET secret == SecretDigits(private_key)
    IN \E i \in 1..(Len(secret) - 3) : Contains(text, SubSeq(secret, i, i + 3))

C28_KeyNeverInOutput ==
    (call.fn = "open_position" /\ call.done)
    => \A k \in 1..Len(call.out) : ~Leaks(call.out[k].text, call.args.private_key)

\* C28 for the messages to the node alone
C28_KeyNeverSentToNode ==
    (call.fn = "open_position" /\ call.done)
    => \A k \in 1..Len(call.out) :
         call.out[k].to = "node" => ~Leaks(call.out[k].text, call.args.private_key)

\* C29: one invocation of open_position broadcasts at most one openTrade
\* transaction, also when the wait for the receipt fails and the decorator
\* runs the operation again.
C29_AtMostOneTradeTx ==
    \A r \in Procs :
      req[r].op = "open_position"
      => Cardinality({k \in 1..Len(txs) : txs[k].req = r /\ txs[k].kind = "openTrade"}) <= 1

\* C30: when an openTrade transaction is broadcast for a collateral c, the
\* approval sent last before it (if any approval was sent) grants at least c.
C30_LastApprovalCoversOpen ==
    \A k \in 1..Len(txs) :
      txs[k].kind = "openTrade"
      => LET sent == {j \in 1..(k - 1) : txs[j].kind = "approve"}
         IN sent # {}
            => txs[CHOOSE j \in sent : \A i \in sent : i <= j].amount >= txs[k].amount

\* C35: every openTrade transaction broadcast carries a non-zero openPrice:
\* when the market price cannot be fetched, no openTrade transaction is sent.
C35_OpenPriceNeverZero ==
    \A k \in 1..Len(txs) : txs[k].kind = "openTrade" => txs[k].open_price # 0

\* C37: when the SDK is not available, its call fails, or its answer yields
\* no usable (symbol, index) pair, refresh_pair_index_map_from_sdk leaves the
\* registry as it was: every symbol that resolved before the refresh resolves
\* to the same pair index after it, and the registry is never left empty.
NoUsablePair(sdk) ==
    \/ ~sdk.client
    \/ ~sdk.fetched
    \/ \A k \in 1..Len(sdk.pairs) : sdk.pairs[k].from = <<>> \/ sdk.pairs[k].index = None

C37_FailedRefreshKeepsRegistry ==
    /\ registry.SYMBOL_TO_PAIR_INDEX # {}
    /\ (call.fn = "refresh_pair_index_map_from_sdk" /\ NoUsablePair(call.args.sdk))
       => \A e \in call.args.before.SYMBOL_TO_PAIR_INDEX : get_pair_index(e[1]) = e[2]

\* C38: after any sequence of update_pair_index and
\* refresh_pair_index_map_from_sdk calls the two maps are mutually inverse:
\* get_symbol(get_pair_index(s)) is the normalized s for every registered
\* symbol s, and get_pair_index(get_symbol(i)) = i for every registered index i.
C38_MapsMutuallyInverse ==
    /\ \A e \in registry.SYMBOL_TO_PAIR_INDEX :
         get_symbol(get_pair_index(e[1])) = _normalize_symbol(e[1])
    /\ \A e \in registry.PAIR_INDEX_TO_SYMBOL :
         get_pair_index(get_symbol(e[2])) = e[2]

\* C31: close, update stops and update margin re-read the targeted (trader,
\* pair, slot) trade right before building: a transaction of theirs is built
\* only in a step that finds the slot occupied (a close for the size read),
\* and a step that finds it empty raises "No open trade found" and sends
\* nothing.
SlotOps == {"close_position", "update_tp_sl", "update_margin"}

TargetSlot(r) ==
    IF req[r].pc = "slot_read" THEN slots[req[r].pair][req[r].idx]
    ELSE slots[req[r].pair_index][req[r].trade_index]

ReadsSlot(r) ==
    /\ req[r].op \in SlotOps
    /\ \/ req[r].pc = "slot_read"
       \/ req[r].pc = "update_tp_sl" /\ ~(req[r].new_tp.n = None /\ req[r].new_sl.n = None)
    /\ req'[r].pc # req[r].pc

C31_NoTxForEmptySlot ==
    [][ \A r \in Procs :
          ReadsSlot(r) =>
            /\ Len(txs') > Len(txs) =>
                 /\ TargetSlot(r).trader # ZeroAddress
                 /\ txs'[Len(txs')].kind = "closeTradeMarket"
                    => txs'[Len(txs')].amount = TargetSlot(r).size
            /\ TargetSlot(r).trader = ZeroAddress =>
                 /\ txs' = txs
                 /\ faults' = faults => req'[r].last_error.id = "no_open_trade" ]_vars

C31_Witness ==
    \E r \in Procs :
      /\ req[r].op \in SlotOps
      /\ req[r].pc = "done"
      /\ req[r].last_error.id = "no_open_trade"
      /\ \A k \in 1..Len(txs) : txs[k].req # r

C32_CarriesValueRead ==
    [][ \A r \in Procs :
          (req[r].pc = "update_tp_sl" /\ req'[r].pc # "update_tp_sl") =>
            LET rq == req[r]
                trade == slots[rq.pair_index][rq.trade_index]
                tx == txs'[Len(txs')]
            IN /\ Len(txs') > Len(txs) =>
                    /\ tx.kind = "updateTpAndSl"
                    /\ tx.tp = IF rq.new_tp.n = None THEN trade.tp
                               ELSE ToChain(Float(rq.new_tp), PRICE_DECIMALS)
                    /\ tx.sl = IF rq.new_sl.n = None THEN trade.sl
                               ELSE ToChain(Float(rq.new_sl), PRICE_DECIMALS)
               /\ (rq.new_tp.n = None /\ rq.new_sl.n = None) =>
                    /\ txs' = txs
                    /\ faults' = faults
                    /\ ~req'[r].did_rpc
                    /\ req'[r].last_error.id = "no_levels" ]_vars

\* C33: once open_position for a symbol has settled and close_position for
\* the pair index of that symbol then settles, the position that was opened
\* is no longer held: the slot the contract stored it in is empty.
C33_CloseRemovesOpenedPosition ==
    [][ \A c \in Procs :
          (req[c].op = "close_position" /\ req[c].pc = "slot_wait"
           /\ req'[c].pc = "done" /\ req'[c].result = "success")
          => \A k \in 1..Len(txs) :
               (txs[k].kind = "openTrade" /\ txs[k].status = "ok"
                /\ txs[k].req \in req[c].after
                /\ req[txs[k].req].result = "success"
                /\ txs[k].pair = req[c].pair_index)
               => slots'[txs[k].pair][txs[k].slot].trader = ZeroAddress ]_vars

\* C34: the native-currency value of a transaction is fixed by its entry
\* point: the execution fee for openTrade (0.0001 ETH = 10^14 wei when none is
\* given) and for closeTradeMarket (0.0003 ETH = 3 * 10^14 wei when none is
\* given), exactly 1 wei for updateTpAndSl and updateMargin whatever fee the
\* caller passes, and 0 for cancelOpenLimitOrder.
C34_ValueFixedByEntryPoint ==
    (call.fn = "value_wei" /\ call.done) =>
      LET fee == call.args.execution_fee_wei
          given == ~fee.is_none /\ call.args.op # "close_all_positions_via_contract"
      IN CASE call.out.entry = "openTrade" ->
                call.out.value = IF given THEN fee.wei ELSE Pow10(14)
           [] call.out.entry = "closeTradeMarket" ->
                call.out.value = IF given THEN fee.wei ELSE IntMul(Pow10(14), 3)
           [] call.out.entry \in {"updateTpAndSl", "updateMargin"} ->
                call.out.value = <<1>>
           [] call.out.entry = "cancelOpenLimitOrder" ->
                call.out.value = <<>>
           [] OTHER -> FALSE

C34_Witness ==
    /\ call.fn = "value_wei"
    /\ call.done
    /\ call.args.op = "update_tp_sl_via_contract"
    /\ call.args.execution_fee_wei = Fee(IntMul(Pow10(14), 2))
    /\ call.out.value = <<1>>

\* C36: in every openTrade transaction the trade struct's trader is the
\* address derived from the private key that signs the transaction, and its
\* index, initialPosToken and timestamp are 0: no request opens a trade on
\* behalf of the address of another key.
C36_TraderIsSigner ==
    (call.fn = "openTrade" /\ call.done /\ call.out.error = NoError) =>
      /\ call.out.trade.trader = call.out.signer
      /\ call.out.signer = DerivedAddress(call.args.private_key)
      /\ call.out.trade.index = 0
      /\ call.out.trade.initialPosToken = 0
      /\ call.out.trade.timestamp = 0
      /\ \A k \in PrivateKeys :
           Strip0x(k) # Strip0x(call.args.private_key)
           => call.out.trade.trader # DerivedAddress(k)

C36_Witness ==
    /\ call.fn = "openTrade"
    /\ call.done
    /\ call.args.private_key = KeyDigits(5)
    /\ call.out.error = NoError
    /\ call.out.signer = DerivedAddress(<<"0", "x">> \o KeyDigits(5))
    /\ call.out.trade.trader # DerivedAddress(<<"0", "x">> \o KeyDigits(3))

=============================================================================
